---- MODULE Spec2Model ----
(***************************************************************************)
(* Mercury: GPU particle simulation (transform feedback, ping-pong         *)
(* buffers) coupled to a screen-space fluid renderer, driven by            *)
(* MercuryApp (start / animate / resize / dispose).                        *)
(*                                                                         *)
(* Reals are modelled as fixed-point integers with four decimal places     *)
(* (Unit = 1.0); seconds, positions, velocities and strengths all use the  *)
(* same scale.                                                             *)
(***************************************************************************)
EXTENDS Integers, Sequences, FiniteSets, TLC

VARIABLES
    ps,        \* the application's current ParticleSystem object, or NULL
    fr,        \* the application's current FluidRenderer object, or NULL
    gl,        \* the WebGL2 context: live / deleted objects, capability flags
    app,       \* MercuryApp fields
    sched,     \* browser scheduling: pending animation-frame callbacks, suspended start() calls
    obs        \* observations of the last handler: update read/write, render passes, counters

vars == <<ps, fr, gl, app, sched, obs>>

\* a null object reference (every object of the model is a record)
NULL == [null |-> TRUE]

\* a null array / texture reference
NoData == <<>>

----------------------------------------------------------------------------
(* Bounds of the model *)

ParticleCount == 2      \* particles per buffer (config.particleCount scaled down)
MaxSteps == 5           \* update steps explored per run
MaxStarts == 2          \* start() invocations explored per run
MaxResizes == 2         \* resize events explored per run
MaxFrames == 2          \* display refreshes explored per run
MaxMorphFrames == 50    \* display refreshes explored per run of a shape morph
MaxSwitches == 1        \* shape switches explored per run
MaxSwitchFrame == 3     \* last display refresh after which a switch is explored
MaxShapeCount == 5      \* largest particle count of a shape manager
MaxShapeUpdates == 3    \* updateShape() calls explored per run
MaxTouchEvents == 4     \* touch and mouse events explored per run
MaxClicks == 4          \* shape-switch clicks explored per run

----------------------------------------------------------------------------
(* Fixed-point arithmetic *)

Unit == 100 * 100

Abs(a) == IF a < 0 THEN -a ELSE a

Sign(a, b) == IF (a < 0) # (b < 0) THEN -1 ELSE 1

\* a * b for fixed-point a, b (rounded toward zero)
Mul(a, b) ==
    LET x == Abs(a)
        y == Abs(b)
    IN  Sign(a, b) * ((x \div Unit) * y + ((x % Unit) * y) \div Unit)

\* a / b for fixed-point a, b, b # 0 (rounded toward zero)
Quot(a, b) == Sign(a, b) * ((Abs(a) * Unit) \div Abs(b))

\* a / b for a too large to scale before dividing
QuotWide(a, b) ==
    Sign(a, b) * ((Abs(a) \div Abs(b)) * Unit + ((Abs(a) % Abs(b)) * Unit) \div Abs(b))

\* exp(-x) for x >= 0: (1 - y + y^2 / 2)^32 with y = x / 32, by five squarings
ExpNeg(x) ==
    IF x >= 12 * Unit THEN 0
    ELSE LET y == x \div 32
             e1 == Unit - y + Mul(y, y) \div 2
             e2 == Mul(e1, e1)
             e4 == Mul(e2, e2)
             e8 == Mul(e4, e4)
             e16 == Mul(e8, e8)
         IN  Mul(e16, e16)

RECURSIVE SqrtIter(_, _, _)
SqrtIter(n, lo, hi) ==
    IF lo >= hi THEN lo
    ELSE LET mid == (lo + hi + 1) \div 2
         IN  IF mid * mid <= n THEN SqrtIter(n, mid, hi) ELSE SqrtIter(n, lo, mid - 1)

ISqrt(n) == SqrtIter(n, 0, 46340)

Axes == 1..3

Vec3(x, y, z) == <<x, y, z>>
ZeroVec == Vec3(0, 0, 0)

VAdd(a, b) == [i \in Axes |-> a[i] + b[i]]
VSub(a, b) == [i \in Axes |-> a[i] - b[i]]
VScale(a, k) == [i \in Axes |-> Mul(a[i], k)]

\* GLSL length()
Length(v) ==
    IF \A i \in Axes : Abs(v[i]) <= 26000
    THEN ISqrt(v[1] * v[1] + v[2] * v[2] + v[3] * v[3])
    ELSE 4 * ISqrt((v[1] \div 4) * (v[1] \div 4) + (v[2] \div 4) * (v[2] \div 4)
                   + (v[3] \div 4) * (v[3] \div 4))

\* GLSL normalize(); callers guard against a zero length
Normalize(v) == LET len == Length(v) IN [i \in Axes |-> Quot(v[i], len)]

----------------------------------------------------------------------------
(* particle_update.vert.glsl *)

GravityAccel == 98100        \* 9.81
AttractionGain == 100000     \* 10.0
TouchGain == 20000           \* 2.0
TouchSoftening == 1000       \* 0.1
Epsilon == 10                \* 0.001
HalfFactor == 5000           \* 0.5
MaxTouchPoints == 5

\* getTargetPosition with row and column exchanged
getTargetPosition_ColumnMajor(id, u) ==
    IF u.uTextureSize = 0 THEN u.unbound
    ELSE LET size == u.uTextureSize
             y == id \div size
             x == id - y * size
             texel == (x * size + y) * 4
         IN  Vec3(u.uTargetTexture[texel + 1], u.uTargetTexture[texel + 2],
                  u.uTargetTexture[texel + 3])

\* texel fetch of the RGBA target texture for particle id (NEAREST, row-major).
\* With uTextureSize = 0 the coordinates are NaN and the fetch is undefined:
\* it returns u.unbound.
getTargetPosition(id, u) ==
    IF u.uTextureSize = 0 THEN u.unbound
    ELSE LET size == u.uTextureSize
             y == id \div size
             x == id - y * size
             texel == (y * size + x) * 4
         IN  Vec3(u.uTargetTexture[texel + 1], u.uTargetTexture[texel + 2],
                  u.uTargetTexture[texel + 3])

ApplyGravity(velocity, u) ==
    IF Length(u.uGravity) > Epsilon
    THEN VAdd(velocity, VScale(VScale(Normalize(u.uGravity), GravityAccel), u.uDeltaTime))
    ELSE velocity

ApplyAttraction(position, velocity, id, u) ==
    IF u.uShapeAttraction > 0
    THEN LET toTarget == VSub(getTargetPosition(id, u), position)
         IN  IF Length(toTarget) > Epsilon
             THEN VAdd(velocity,
                       VScale(VScale(Normalize(toTarget),
                                     Mul(u.uShapeAttraction, AttractionGain)),
                              u.uDeltaTime))
             ELSE velocity
    ELSE velocity

\* one iteration of the touch loop: uTouchPoints[i].xyz is the position, .w the strength
TouchForce(position, tp, dt) ==
    LET touchPos == Vec3(tp[1], tp[2], tp[3])
        touchStrength == tp[4]
        toTouch == VSub(touchPos, position)
        dist == Length(toTouch)
    IN  IF touchStrength > 0 /\ dist > Epsilon
        THEN VScale(VScale(Normalize(toTouch),
                           Quot(Mul(touchStrength, TouchGain), Mul(dist, dist) + TouchSoftening)),
                    dt)
        ELSE ZeroVec

RECURSIVE ApplyTouches(_, _, _, _)
ApplyTouches(position, velocity, u, i) ==
    IF i > MaxTouchPoints THEN velocity
    ELSE ApplyTouches(position,
                      VAdd(velocity, TouchForce(position, u.uTouchPoints[i], u.uDeltaTime)),
                      u, i + 1)

\* toTouch of a slot, and the guards of its force: touchStrength > 0.0 and
\* dist > 0.001
ToTouch(position, tp) == VSub(Vec3(tp[1], tp[2], tp[3]), position)
TouchActs(position, tp) == tp[4] > 0 /\ Length(ToTouch(position, tp)) > Epsilon

\* the vectors main() hands to normalize() for one particle: uGravity, toTarget
\* and toTouch of every slot, each behind its guards
Normalized(position, id, u) ==
    (IF Length(u.uGravity) > Epsilon THEN {u.uGravity} ELSE {})
    \cup (IF u.uShapeAttraction > 0
             /\ Length(VSub(getTargetPosition(id, u), position)) > Epsilon
          THEN {VSub(getTargetPosition(id, u), position)} ELSE {})
    \cup { ToTouch(position, u.uTouchPoints[k]) :
           k \in { j \in 1..MaxTouchPoints : TouchActs(position, u.uTouchPoints[j]) } }

\* the divisors main() evaluates for one particle: uTextureSize in
\* getTargetPosition() (called when uShapeAttraction > 0) and dist * dist + 0.1
\* of every slot that passes its guards
Divisors(position, id, u) ==
    (IF u.uShapeAttraction > 0 THEN {u.uTextureSize} ELSE {})
    \cup { Mul(Length(ToTouch(position, u.uTouchPoints[k])),
               Length(ToTouch(position, u.uTouchPoints[k]))) + TouchSoftening :
           k \in { j \in 1..MaxTouchPoints : TouchActs(position, u.uTouchPoints[j]) } }

\* Collide with the reflected speed raised by the bounce share
Collide_Amplifying(p, v, half, bounce) ==
    IF p < -half THEN [p |-> -half, v |-> Abs(v) + Mul(Abs(v), bounce)]
    ELSE IF p > half THEN [p |-> half, v |-> -(Abs(v) + Mul(Abs(v), bounce))]
    ELSE [p |-> p, v |-> v]

\* Collide with the upper bound forgotten
Collide_LowerOnly(p, v, half, bounce) ==
    IF p < -half THEN [p |-> -half, v |-> Mul(Abs(v), bounce)]
    ELSE [p |-> p, v |-> v]

\* Collide scaling the velocity without reversing it
Collide_KeepsSign(p, v, half, bounce) ==
    IF p < -half THEN [p |-> -half, v |-> Mul(v, bounce)]
    ELSE IF p > half THEN [p |-> half, v |-> Mul(v, bounce)]
    ELSE [p |-> p, v |-> v]

\* boundary collision on one axis: clamp and reflect with abs()
Collide(p, v, half, bounce) ==
    IF p < -half THEN [p |-> -half, v |-> Mul(Abs(v), bounce)]
    ELSE IF p > half THEN [p |-> half, v |-> -Mul(Abs(v), bounce)]
    ELSE [p |-> p, v |-> v]

\* halfBounds taking uBounds for the half extents
halfBounds_Full(u) == u.uBounds

halfBounds(u) == VScale(u.uBounds, HalfFactor)

\* position after Euler integration, before the boundary stage
Integrate(position, velocity, id, u) ==
    LET v1 == ApplyGravity(velocity, u)
        v2 == ApplyAttraction(position, v1, id, u)
        v3 == ApplyTouches(position, v2, u, 1)
        v4 == VAdd(v3, ZeroVec)                      \* turbulence * 0.0
        v5 == VScale(v4, u.uDamping)
    IN  [pos |-> VAdd(position, VScale(v5, u.uDeltaTime)), vel |-> v5]

\* main(): the values captured as vPosition, vVelocity
ShaderMain(position, velocity, id, u) ==
    LET free == Integrate(position, velocity, id, u)
        hb == halfBounds(u)
        c == [i \in Axes |-> Collide(free.pos[i], free.vel[i], hb[i], u.uBounce)]
    IN  [pos |-> [i \in Axes |-> c[i].p], vel |-> [i \in Axes |-> c[i].v]]

----------------------------------------------------------------------------
(* WebGL2 context *)

\* the name of a GL object: its kind, the start() that made it, its role there;
\* a render-target object also carries the _createFramebuffers() call that made it
Res(kind, owner, slot) == [kind |-> kind, owner |-> owner, slot |-> slot, alloc |-> 0]

GLCreate(g, rs) == [g EXCEPT !.live = @ \cup rs]

GLDelete(g, rs) == [g EXCEPT !.live = @ \ rs, !.deleted = @ \cup (rs \cap g.live)]

\* gl.bufferData on a freshly created buffer
GLBufferData(g, r, data) == [g EXCEPT !.buffers = (r :> data) @@ @]

NewContext ==
    [live |-> {}, deleted |-> {},
     buffers |-> << >>,                 \* buffer object -> contents
     vaos |-> << >>,                    \* vertex array -> buffers of attributes 0, 1, 2
     tfs |-> << >>,                     \* transform feedback object -> buffers at index 0, 1
     images |-> << >>,                  \* render-target texture -> size, status, contents
     allocs |-> 0,                      \* _createFramebuffers() calls so far
     floatRenderable |-> TRUE,          \* an RGBA32F colour attachment is framebuffer-complete
     floatBlend |-> TRUE,               \* blending into a 32-bit float attachment is allowed
     blurShader |-> "gaussian",         \* the fragment shader linked into blurProgram
     shadingShader |-> "debug",         \* the fragment shader linked into shadingProgram
     BLEND |-> FALSE, DEPTH_TEST |-> FALSE, RASTERIZER_DISCARD |-> FALSE,
     DEPTH_WRITEMASK |-> TRUE]

\* what a context may support: RGBA32F attachments not renderable; renderable
\* without float blending; renderable with float blending
ContextKinds ==
    { [floatRenderable |-> FALSE, floatBlend |-> FALSE],
      [floatRenderable |-> TRUE, floatBlend |-> FALSE],
      [floatRenderable |-> TRUE, floatBlend |-> TRUE] }

ContextOf(kind) ==
    [NewContext EXCEPT !.floatRenderable = kind.floatRenderable,
                       !.floatBlend = kind.floatBlend]

----------------------------------------------------------------------------
(* core/ParticleSystem.js *)

DefaultDamping == 9800       \* 0.98
DefaultBounce == 3000        \* 0.3
BoundsX == 12000             \* 1.2
BoundsY == 18000             \* 1.8
BoundsZ == 12000             \* 1.2

ZeroTouch == <<0, 0, 0, 0>>

ParticleSystem(gen, particleCount) ==
    [gen |-> gen,
     particleCount |-> particleCount,
     gl |-> FALSE,           \* this.gl has been set by init()
     bufferA |-> NULL,
     bufferB |-> NULL,
     currentBuffer |-> 0,
     transformFeedbackA |-> NULL,
     transformFeedbackB |-> NULL,
     initialPositions |-> NoData,
     initialVelocities |-> NoData,
     initialIds |-> NoData,
     uniforms |->
        [uTime |-> 0,
         uDeltaTime |-> 0,
         uGravity |-> Vec3(0, -Unit, 0),
         uBounds |-> Vec3(BoundsX, BoundsY, BoundsZ),
         uDamping |-> DefaultDamping,
         uBounce |-> DefaultBounce,
         uTouchPoints |-> [i \in 1..MaxTouchPoints |-> ZeroTouch],
         uTargetTexture |-> NoData,
         uTextureSize |-> 0,
         uShapeAttraction |-> 0]]

\* initParticles(): `random` is the sequence of Math.random()-derived samples,
\* one [pos, vel] per particle; ids[i] = i
initParticles(p, random) ==
    [p EXCEPT !.initialPositions = [i \in 1..p.particleCount |-> random[i].pos],
              !.initialVelocities = [i \in 1..p.particleCount |-> random[i].vel],
              !.initialIds = [i \in 1..p.particleCount |-> i - 1]]

\* init() on a WebGL2 context
init(p, random) == [initParticles(p, random) EXCEPT !.gl = TRUE]

BufferObjects(gen, name) ==
    [vao |-> Res("vao", gen, name),
     posBuffer |-> Res("posBuffer", gen, name),
     velBuffer |-> Res("velBuffer", gen, name),
     idBuffer |-> Res("idBuffer", gen, name)]

\* createVAO(): the GL side
createVAO_gl(g, gen, positions, velocities, ids, name) ==
    LET b == BufferObjects(gen, name)
        g1 == GLCreate(g, {b.vao, b.posBuffer, b.velBuffer, b.idBuffer})
        g2 == GLBufferData(GLBufferData(GLBufferData(g1, b.posBuffer, positions),
                                        b.velBuffer, velocities),
                           b.idBuffer, ids)
    IN  [g2 EXCEPT !.vaos = (b.vao :> <<b.posBuffer, b.velBuffer, b.idBuffer>>) @@ @]

\* setupTransformFeedback(): the object side
setupTransformFeedback(p) ==
    [p EXCEPT !.bufferA = BufferObjects(p.gen, "A"),
              !.bufferB = BufferObjects(p.gen, "B"),
              !.transformFeedbackA = Res("transformFeedback", p.gen, "A"),
              !.transformFeedbackB = Res("transformFeedback", p.gen, "B")]

\* setupTransformFeedback() binding the id buffer at index 1
setupTransformFeedback_gl_IdBound(g, p) ==
    LET q == setupTransformFeedback(p)
        g1 == createVAO_gl(g, p.gen, p.initialPositions, p.initialVelocities, p.initialIds, "A")
        g2 == createVAO_gl(g1, p.gen, p.initialPositions, p.initialVelocities, p.initialIds, "B")
        g3 == GLCreate(g2, {q.transformFeedbackA, q.transformFeedbackB})
    IN  [g3 EXCEPT !.tfs = (q.transformFeedbackA :> <<q.bufferA.posBuffer, q.bufferA.idBuffer>>)
                           @@ (q.transformFeedbackB :> <<q.bufferB.posBuffer, q.bufferB.idBuffer>>)
                           @@ @]

\* setupTransformFeedback(): the GL side
setupTransformFeedback_gl(g, p) ==
    LET q == setupTransformFeedback(p)
        g1 == createVAO_gl(g, p.gen, p.initialPositions, p.initialVelocities, p.initialIds, "A")
        g2 == createVAO_gl(g1, p.gen, p.initialPositions, p.initialVelocities, p.initialIds, "B")
        g3 == GLCreate(g2, {q.transformFeedbackA, q.transformFeedbackB})
    IN  [g3 EXCEPT !.tfs = (q.transformFeedbackA :> <<q.bufferA.posBuffer, q.bufferA.velBuffer>>)
                           @@ (q.transformFeedbackB :> <<q.bufferB.posBuffer, q.bufferB.velBuffer>>)
                           @@ @]

getCurrentBuffer(p) == IF p.currentBuffer = 0 THEN p.bufferA ELSE p.bufferB

\* update(): the buffer whose VAO is bound for reading
readBuffer(p) == IF p.currentBuffer = 0 THEN p.bufferA ELSE p.bufferB

\* writeTF selected with the condition of readBuffer
writeTF_SameAsRead(p) == IF p.currentBuffer = 0 THEN p.transformFeedbackA ELSE p.transformFeedbackB

\* update(): the transform feedback object bound for writing
writeTF(p) == IF p.currentBuffer = 0 THEN p.transformFeedbackB ELSE p.transformFeedbackA

\* updateUniforms(): the uniform values the program runs with.  When
\* uniforms.uTargetTexture is null neither the sampler nor uTextureSize is set
\* (uTextureSize keeps the program default 0); `unbound` is what a fetch returns then.
updateUniforms(p, unbound) ==
    [uTime |-> p.uniforms.uTime,
     uDeltaTime |-> p.uniforms.uDeltaTime,
     uGravity |-> p.uniforms.uGravity,
     uBounds |-> p.uniforms.uBounds,
     uDamping |-> p.uniforms.uDamping,
     uBounce |-> p.uniforms.uBounce,
     uTouchPoints |-> p.uniforms.uTouchPoints,
     uTargetTexture |-> p.uniforms.uTargetTexture,
     uTextureSize |-> IF p.uniforms.uTargetTexture = NoData THEN 0 ELSE p.uniforms.uTextureSize,
     uShapeAttraction |-> p.uniforms.uShapeAttraction,
     unbound |-> unbound]

\* update() throws a TypeError: at gl.useProgram when init() never set this.gl,
\* at readBuffer.vao when the buffers were never created
updateThrows(p) == ~p.gl \/ readBuffer(p) = NULL

\* binding a deleted vertex array or transform feedback object is an
\* INVALID_OPERATION: the draw captures nothing
updateDraws(g, p) == readBuffer(p).vao \in g.live /\ writeTF(p) \in g.live

\* update() without the swap
update_NoSwap(p, deltaTime) == [p EXCEPT !.uniforms.uDeltaTime = deltaTime]

\* update() advancing uTime by deltaTime as well
update_AdvancesTime(p, deltaTime) ==
    IF ~p.gl THEN p
    ELSE IF updateThrows(p)
    THEN [p EXCEPT !.uniforms.uDeltaTime = deltaTime]
    ELSE [p EXCEPT !.uniforms.uDeltaTime = deltaTime,
                   !.uniforms.uTime = @ + deltaTime,
                   !.currentBuffer = 1 - p.currentBuffer]

\* update(): the object side
update(p, deltaTime) ==
    IF ~p.gl THEN p
    ELSE IF updateThrows(p)
    THEN [p EXCEPT !.uniforms.uDeltaTime = deltaTime]
    ELSE [p EXCEPT !.uniforms.uDeltaTime = deltaTime,
                   !.currentBuffer = 1 - p.currentBuffer]

\* update(): the GL side.  The draw reads the attributes of the bound VAO and
\* captures vPosition / vVelocity into the buffers of the bound transform feedback.
update_gl(g, p, deltaTime, unbound) ==
    IF updateThrows(p) THEN g
    ELSE IF ~updateDraws(g, p) THEN [g EXCEPT !.RASTERIZER_DISCARD = FALSE]
    ELSE LET attrs == g.vaos[readBuffer(p).vao]
             out == g.tfs[writeTF(p)]
             u == updateUniforms([p EXCEPT !.uniforms.uDeltaTime = deltaTime], unbound)
             v == [i \in 1..p.particleCount |->
                      ShaderMain(g.buffers[attrs[1]][i], g.buffers[attrs[2]][i],
                                 g.buffers[attrs[3]][i], u)]
         IN  [g EXCEPT !.buffers = (out[1] :> [i \in 1..p.particleCount |-> v[i].pos])
                                   @@ (out[2] :> [i \in 1..p.particleCount |-> v[i].vel])
                                   @@ @,
                       !.RASTERIZER_DISCARD = FALSE]

\* update(): what the draw call read and wrote (observation only)
update_obs(g, p) ==
    IF updateThrows(p)
    THEN [threw |-> TRUE, read |-> {}, written |-> {}, count |-> 0]
    ELSE IF ~updateDraws(g, p)
    THEN [threw |-> FALSE, read |-> {}, written |-> {}, count |-> 0]
    ELSE LET attrs == g.vaos[readBuffer(p).vao]
             out == g.tfs[writeTF(p)]
         IN  [threw |-> FALSE,
              read |-> {attrs[1], attrs[2], attrs[3]},
              written |-> {out[1], out[2]},
              count |-> p.particleCount]

setGravity(p, x, y, z) == [p EXCEPT !.uniforms.uGravity = Vec3(x, y, z)]

setTouchPoints(p, touchPoints) == [p EXCEPT !.uniforms.uTouchPoints = touchPoints]

Max(a, b) == IF a > b THEN a ELSE b
Min(a, b) == IF a < b THEN a ELSE b

setShapeAttraction(p, strength) ==
    [p EXCEPT !.uniforms.uShapeAttraction = Max(0, Min(Unit, strength))]

TargetTexture(p) == Res("targetTexture", p.gen, "uTargetTexture")

\* setShapeTarget(): the texture holds textureData (the upload keeps every float)
setShapeTarget(p, textureData, textureSize) ==
    [p EXCEPT !.uniforms.uTargetTexture = textureData,
              !.uniforms.uTextureSize = textureSize]

setShapeTarget_gl(g, p) == GLCreate(g, {TargetTexture(p)})

BufferResources(b) ==
    IF b = NULL THEN {} ELSE {b.posBuffer, b.velBuffer, b.idBuffer, b.vao}

\* ParticleSystem.dispose()
ParticleSystem_dispose_gl(g, p) ==
    GLDelete(g, BufferResources(p.bufferA) \cup BufferResources(p.bufferB)
                \cup (IF p.transformFeedbackA = NULL THEN {} ELSE {p.transformFeedbackA})
                \cup (IF p.transformFeedbackB = NULL THEN {} ELSE {p.transformFeedbackB}))

----------------------------------------------------------------------------
(* core/ShapeManager.js *)

\* sampleSphere(count, 0.6): the Fibonacci-spiral points, tabulated for count <= 7
SphereTable ==
    <<  << <<6000, 0, 0>> >>,
        << <<5196, 0, 3000>>, <<-3831, -3510, -3000>> >>,
        << <<4472, 0, 4000>>, <<-4424, -4053, 0>>, <<391, 4455, -4000>> >>,
        << <<3969, 0, 4500>>, <<-4284, -3924, 1500>>, <<508, 5787, -1500>>,
           <<2415, -3150, -4500>> >>,
        << <<3600, 0, 4800>>, <<-4055, -3715, 2400>>, <<525, 5977, 0>>,
           <<3346, -4364, -2400>>, <<-3545, 627, -4800>> >>,
        << <<3317, 0, 5000>>, <<-3831, -3510, 3000>>, <<517, 5893, 1000>>,
           <<3600, -4695, -1000>>, <<-5117, 905, -3000>>, <<2798, 1780, -5000>> >>,
        << <<3090, 0, 5143>>, <<-3631, -3326, 3429>>, <<503, 5728, 1714>>, <<3651, -4762, 0>>,
           <<-5662, 1002, -1714>>, <<4155, 2643, -3429>>, <<-802, -2985, -5143>> >>  >>

\* positions as a flat array of 3 * count floats
Flat3(points) == [k \in 1..(3 * Len(points)) |-> points[((k - 1) \div 3) + 1][((k - 1) % 3) + 1]]

sampleSphere(count) == Flat3(SphereTable[count])

\* sampleCube, sampleTorus and sampleHeart draw every point with Math.random():
\* two points of each surface, of which a draw takes the points in turn
\* cube (half 0.4): face +X at (u, v) = (0.25, -0.5); face -Y at (-0.375, 0.75)
CubePoints == << <<4000, 1000, -2000>>, <<-1500, -4000, 3000>> >>
\* torus (R 0.5, r 0.2): (u, v) = (0, 0) and (pi/2, pi/2)
TorusPoints == << <<7000, 0, 0>>, <<0, 5000, 2000>> >>
\* heart (scale 0.15): (t, s) = (0, 0) and (pi/2, pi/2)
HeartPoints == << <<0, 7500, 0>>, <<24000, 6000, 15000>> >>

\* the outcomes of a sampler's Math.random() calls: which point comes first
ShapeDraws == 1..2

sampleRandom(points, count, draw) ==
    Flat3([i \in 1..count |-> points[((i + draw) % Len(points)) + 1]])

sampleCube(count, draw) == sampleRandom(CubePoints, count, draw)
sampleTorus(count, draw) == sampleRandom(TorusPoints, count, draw)
sampleHeart(count, draw) == sampleRandom(HeartPoints, count, draw)

ShapeNames == <<"sphere", "cube", "torus", "heart">>

\* targetType is the type of the value held by targetPositions; a value that
\* is no Float32Array has no elements
ShapeManager(particleCount) ==
    [particleCount |-> particleCount,
     currentShape |-> "sphere",
     targetPositions |-> sampleSphere(particleCount),
     targetType |-> "Float32Array"]

\* names for which this.shapes[shapeName] is truthy although `shapes` has no
\* such property of its own: they are inherited from Object.prototype
InheritedNames == {"toString", "constructor"}

\* updateShape(shapeName): `if (!this.shapes[shapeName]) return`, then
\* this.shapes[shapeName](this.particleCount).  shapes.toString(n) is the string
\* "[object Object]", shapes.constructor(n) is Object(n), a Number object.
updateShape(m, shapeName, draw) ==
    IF shapeName \notin {ShapeNames[k] : k \in DOMAIN ShapeNames} \cup InheritedNames THEN m
    ELSE [m EXCEPT !.currentShape = shapeName,
                   !.targetPositions =
                       CASE shapeName = "sphere" -> sampleSphere(m.particleCount)
                         [] shapeName = "cube" -> sampleCube(m.particleCount, draw)
                         [] shapeName = "torus" -> sampleTorus(m.particleCount, draw)
                         [] shapeName = "heart" -> sampleHeart(m.particleCount, draw)
                         [] OTHER -> << >>,
                   !.targetType =
                       CASE shapeName = "toString" -> "string"
                         [] shapeName = "constructor" -> "Number"
                         [] OTHER -> "Float32Array"]

\* Math.ceil(Math.sqrt(n))
CeilSqrt(n) == LET r == ISqrt(n) IN IF r * r = n THEN r ELSE r + 1

\* createTargetTexture with the alpha channel set in every cell
createTargetTexture_AlphaEverywhere(m) ==
    LET size == CeilSqrt(m.particleCount)
    IN  [size |-> size,
         data |-> [k \in 1..(size * size * 4) |->
                      LET i == (k - 1) \div 4
                          c == (k - 1) % 4
                      IN  IF c = 3 THEN Unit
                          ELSE IF i >= m.particleCount THEN 0
                          ELSE m.targetPositions[i * 3 + c + 1]]]

\* createTargetTexture(): flat RGBA array, zero-initialised, A = 1.0 for each particle
createTargetTexture(m) ==
    LET size == CeilSqrt(m.particleCount)
    IN  [size |-> size,
         data |-> [k \in 1..(size * size * 4) |->
                      LET i == (k - 1) \div 4
                          c == (k - 1) % 4
                      IN  IF i >= m.particleCount THEN 0
                          ELSE IF c = 3 THEN Unit
                          ELSE m.targetPositions[i * 3 + c + 1]]]

----------------------------------------------------------------------------
(* renderers/FluidRenderer.js *)

ProgramSlots == <<"depthProgram", "blurProgram", "normalProgram", "shadingProgram">>

\* the camera of initThree(): PerspectiveCamera(50, aspect, 0.1, 100) at z = 2.5
CameraZ == 25000
CameraNear == 1000
CameraFar == 1000000
\* 1 / tan(25 degrees)
CotHalfFov == 21445

\* uPointSize and the factor of vParticleRadius
PointSize == 30000
RadiusFactor == 100
MinPointSize == 10000
MaxPointSize == 1000000

\* the { fbo, texture, depthBuffer } object _createFloatFramebuffer returns
FloatFramebuffer(gen, alloc, slot) ==
    [fbo |-> [Res("framebuffer", gen, slot) EXCEPT !.alloc = alloc],
     texture |-> [Res("texture", gen, slot) EXCEPT !.alloc = alloc],
     depthBuffer |-> [Res("renderbuffer", gen, slot) EXCEPT !.alloc = alloc]]

TargetResources(t) == IF t = NULL THEN {} ELSE {t.texture, t.depthBuffer, t.fbo}

\* _createFloatFramebuffer(): the GL side.  `complete` is what
\* checkFramebufferStatus reports; it is logged and nothing else.
_createFloatFramebuffer_gl(g, alloc, slot, width, height, complete, gen) ==
    LET t == FloatFramebuffer(gen, alloc, slot)
        g1 == GLCreate(g, TargetResources(t))
    IN  [g1 EXCEPT !.images = (t.texture :> [width |-> width, height |-> height,
                                              complete |-> complete, renderer |-> gen,
                                              written |-> 0,
                                              \* red channel of every texel, row by row
                                              pixels |-> [k \in 1..(width * height) |-> 0],
                                              \* the depth renderbuffer, as view distances
                                              zbuf |-> [k \in 1..(width * height) |-> CameraNear]])
                              @@ @]

\* _compilePrograms(): the programs linked before createProgram / compileShader
\* throws at program number failAt (0: none throws)
CompiledPrograms(gen, failAt) ==
    { Res("program", gen, ProgramSlots[k]) :
        k \in {j \in 1..4 : failAt = 0 \/ j < failAt} }

\* constructor after _compilePrograms() succeeded, and _createFramebuffers()
FluidRenderer(gen, alloc, width, height) ==
    [gen |-> gen,
     width |-> width,
     height |-> height,
     depthProgram |-> Res("program", gen, "depthProgram"),
     blurProgram |-> Res("program", gen, "blurProgram"),
     normalProgram |-> Res("program", gen, "normalProgram"),
     shadingProgram |-> Res("program", gen, "shadingProgram"),
     depthFBO |-> FloatFramebuffer(gen, alloc, "depthFBO"),
     blurFBO1 |-> FloatFramebuffer(gen, alloc, "blurFBO1"),
     blurFBO2 |-> FloatFramebuffer(gen, alloc, "blurFBO2"),
     normalFBO |-> FloatFramebuffer(gen, alloc, "normalFBO")]

_createFramebuffers(f, alloc) ==
    [f EXCEPT !.depthFBO = FloatFramebuffer(f.gen, alloc, "depthFBO"),
              !.blurFBO1 = FloatFramebuffer(f.gen, alloc, "blurFBO1"),
              !.blurFBO2 = FloatFramebuffer(f.gen, alloc, "blurFBO2"),
              !.normalFBO = FloatFramebuffer(f.gen, alloc, "normalFBO")]

\* _createFramebuffers(): the GL side
_createFramebuffers_gl(g, gen, alloc, width, height) ==
    LET mk(gg, slot) == _createFloatFramebuffer_gl(gg, alloc, slot, width, height,
                                                   g.floatRenderable, gen)
    IN  [mk(mk(mk(mk(g, "depthFBO"), "blurFBO1"), "blurFBO2"), "normalFBO")
            EXCEPT !.allocs = alloc]

Targets(f) == {f.depthFBO, f.blurFBO1, f.blurFBO2, f.normalFBO}

\* _destroyFramebuffers() deleting the textures only
_destroyFramebuffers_gl_TexturesOnly(g, f) == GLDelete(g, {t.texture : t \in Targets(f)})

\* _destroyFramebuffers(): the GL side
_destroyFramebuffers_gl(g, f) ==
    GLDelete(g, UNION {TargetResources(t) : t \in Targets(f)})

\* resize(): the object side
resize(f, width, height, alloc) ==
    _createFramebuffers([f EXCEPT !.width = width, !.height = height], alloc)

\* resize(): the GL side
resize_gl(g, f, width, height) ==
    _createFramebuffers_gl(_destroyFramebuffers_gl(g, f), f.gen, g.allocs + 1,
                           width, height)

\* FluidRenderer.dispose()
FluidRenderer_dispose_gl(g, f) ==
    GLDelete(_destroyFramebuffers_gl(g, f),
             {f.depthProgram, f.blurProgram, f.normalProgram, f.shadingProgram})

\* a draw call into `target` (NULL: the canvas) sampling the textures `samples`:
\* the record of what it used, in the GL state it ran in
PassRecord(g, name, target, samples, sources, call) ==
    [name |-> name,
     target |-> IF target = NULL THEN {} ELSE {target.texture},
     samples |-> samples,
     sources |-> sources,
     \* sampled textures this render() call has not written
     stale |-> {t \in samples : g.images[t].written # call},
     \* render-target objects bound or sampled after their deletion
     deleted |-> (samples \cup TargetResources(target)) \cap g.deleted,
     \* particle objects drawn from after their deletion
     deletedSources |-> sources \cap g.deleted,
     \* targets bound or sampled whose framebuffer status was not complete
     incomplete |-> {t \in samples \cup (IF target = NULL THEN {} ELSE {target.texture}) :
                        ~g.images[t].complete},
     BLEND |-> g.BLEND,
     DEPTH_TEST |-> g.DEPTH_TEST,
     RASTERIZER_DISCARD |-> g.RASTERIZER_DISCARD]

\* the effect of clear + draw on the bound framebuffer: an incomplete or deleted
\* framebuffer raises INVALID_FRAMEBUFFER_OPERATION and nothing is written
DrawInto(g, target, call) ==
    IF target = NULL THEN g
    ELSE IF g.images[target.texture].complete /\ target.fbo \in g.live
              /\ target.texture \in g.live
         THEN [g EXCEPT !.images[target.texture].written = call]
         ELSE g

\* draws and clears reach the attachments of a complete, live framebuffer only
Drawable(g, target) ==
    /\ g.images[target.texture].complete
    /\ target.fbo \in g.live
    /\ target.texture \in g.live

\* with blending enabled a draw into a 32-bit float attachment needs float
\* blending, or it raises INVALID_OPERATION and writes nothing
DrawAllowed(g, target) == Drawable(g, target) /\ (g.BLEND => g.floatBlend)

\* ClearTarget leaving the colour attachment as it is
ClearTarget_DepthOnly(g, target, depthBit) ==
    IF ~Drawable(g, target) THEN g
    ELSE LET img == g.images[target.texture]
             n == img.width * img.height
         IN  [g EXCEPT !.images[target.texture].zbuf =
                 IF depthBit /\ g.DEPTH_WRITEMASK THEN [k \in 1..n |-> CameraFar] ELSE @]

\* gl.clearColor(0, 0, 0, 0); gl.clear(COLOR_BUFFER_BIT [| DEPTH_BUFFER_BIT]):
\* the depth buffer is cleared only while the depth write mask is set
ClearTarget(g, target, depthBit) ==
    IF ~Drawable(g, target) THEN g
    ELSE LET img == g.images[target.texture]
             n == img.width * img.height
         IN  [g EXCEPT !.images[target.texture] =
                 [img EXCEPT !.pixels = [k \in 1..n |-> 0],
                             !.zbuf = IF depthBit /\ g.DEPTH_WRITEMASK
                                      THEN [k \in 1..n |-> CameraFar] ELSE @]]

\* depth_render.vert for one particle: view position, window position of the
\* sprite centre (in pixels) and sprite size; clipped when the centre leaves
\* the clip volume
Sprite(position, camera, width, height) ==
    LET view == Vec3(position[1], position[2], position[3] - CameraZ)
        w == -view[3]
        dist == Max(Length(view), 1000)
        size == Max(MinPointSize, Min(MaxPointSize, Quot(Mul(PointSize, 2 * Unit), dist)))
        ndcX == IF w > 0
                THEN Quot((Mul(view[1], CotHalfFov) * camera.height) \div camera.width, w)
                ELSE 0
        ndcY == IF w > 0 THEN Quot(Mul(view[2], CotHalfFov), w) ELSE 0
    IN  [view |-> view,
         size |-> size,
         x |-> ((ndcX + Unit) * width) \div 2,
         y |-> ((ndcY + Unit) * height) \div 2,
         clipped |-> w < CameraNear \/ w > CameraFar \/ Abs(ndcX) > Unit \/ Abs(ndcY) > Unit]

\* depth_render.frag at the centre of pixel k of the sprite: discarded outside
\* the unit circle, else the view-space z of the sphere surface
Fragment(sprite, k, width) ==
    LET cx == ((k - 1) % width) * Unit + Unit \div 2
        cy == ((k - 1) \div width) * Unit + Unit \div 2
    IN  IF 2 * Abs(cx - sprite.x) > sprite.size \/ 2 * Abs(cy - sprite.y) > sprite.size
        THEN [discard |-> TRUE, z |-> 0]
        ELSE CHOOSE f \in
                { IF r2 > Unit THEN [discard |-> TRUE, z |-> 0]
                  ELSE [discard |-> FALSE,
                        z |-> sprite.view[3]
                              + Mul(ISqrt((Unit - r2) * Unit), Mul(PointSize, RadiusFactor))] :
                  r2 \in { Mul(Quot(2 * (cx - sprite.x), sprite.size),
                               Quot(2 * (cx - sprite.x), sprite.size))
                           + Mul(Quot(2 * (cy - sprite.y), sprite.size),
                                 Quot(2 * (cy - sprite.y), sprite.size)) } } : TRUE

\* the fragments of one point sprite, depth-tested (LESS) against the depth
\* buffer and written to both attachments
DrawSprite(img, sprite) ==
    IF sprite.clipped THEN img
    ELSE CHOOSE out \in
            { [img EXCEPT
                 !.pixels = [k \in DOMAIN @ |->
                                IF ~frags[k].discard /\ -frags[k].z < img.zbuf[k]
                                THEN frags[k].z ELSE @[k]],
                 !.zbuf = [k \in DOMAIN @ |->
                              IF ~frags[k].discard /\ -frags[k].z < @[k]
                              THEN -frags[k].z ELSE @[k]]] :
              frags \in { <<Fragment(sprite, 1, img.width)>>
                          \o [k \in 1..(img.width * img.height - 1) |->
                                 Fragment(sprite, k + 1, img.width)] } } : TRUE

\* gl.drawArrays(POINTS, 0, count) with DEPTH_TEST, depthFunc(LESS) and the
\* depth write mask set: particles first + 1 .. count in turn
RECURSIVE DrawPoints(_, _, _, _, _)
DrawPoints(img, positions, camera, first, count) ==
    IF first >= count THEN img
    ELSE CHOOSE out \in
            { DrawPoints(next, positions, camera, first + 1, count) :
              next \in { DrawSprite(img, sprite) :
                         sprite \in { Sprite(positions[first + 1], camera,
                                             img.width, img.height) } } } : TRUE

\* _renderDepth()
_renderDepth(w, f, particleBuffer, particleCount, camera, call) ==
    LET g0 == ClearTarget(w.g, f.depthFBO, TRUE)
        g1 == [g0 EXCEPT !.DEPTH_TEST = TRUE, !.DEPTH_WRITEMASK = TRUE]
        bound == particleBuffer.vao \in g1.live
        sources == IF particleBuffer.vao \in DOMAIN g1.vaos
                   THEN {particleBuffer.vao} \cup
                        {g1.vaos[particleBuffer.vao][k] : k \in 1..3}
                   ELSE {particleBuffer.vao}
        rec == PassRecord(g1, "depth", f.depthFBO, {}, sources, call)
        g2 == IF bound /\ DrawAllowed(g1, f.depthFBO)
                 /\ g1.vaos[particleBuffer.vao][1] \in g1.live
                 /\ particleCount <= Len(g1.buffers[g1.vaos[particleBuffer.vao][1]])
              THEN [g1 EXCEPT !.images[f.depthFBO.texture] =
                       DrawPoints(@, g1.buffers[g1.vaos[particleBuffer.vao][1]],
                                  camera, 0, particleCount)]
              ELSE g1
    IN  [g |-> [DrawInto(g2, f.depthFBO, call) EXCEPT !.DEPTH_TEST = FALSE],
         passes |-> Append(w.passes, rec)]

\* the two bilateral filter fragment shaders: ten gaussian taps a side, or four
\* tabulated taps a side
BlurShaders == {"gaussian", "fiveTap"}
FilterRadius == 50000
DepthFalloff == 1000000
Iterations == 10
Weights5 == <<2270, 1946, 1216, 541, 162>>

\* texture(uDepthTexture, vTexCoord + offset).r of the pixel in column x, row y
\* (from 0), with NEAREST filtering and CLAMP_TO_EDGE wrapping
Texel(img, x, y) ==
    img.pixels[Min(Max(y, 0), img.height - 1) * img.width
               + Min(Max(x, 0), img.width - 1) + 1]

gaussian(x, sigma) == ExpNeg(QuotWide(Mul(x, x), 2 * Mul(sigma, sigma)))

\* the spatial weight of tap i and the taps a side of each shader
spatialWeight(shader, i) ==
    IF shader = "gaussian" THEN gaussian(i * Unit, FilterRadius \div 2) ELSE Weights5[i + 1]
TapsOf(shader) == IF shader = "gaussian" THEN Iterations ELSE 4

\* the kernel offsets whose sample a pass adds: `if (depth1 > 0.0)`,
\* `if (depth2 > 0.0)`
Contributors(img, x, y, direction, shader) ==
    { o \in (-TapsOf(shader)..TapsOf(shader)) \ {0} :
        Texel(img, x + o * direction[1], y + o * direction[2]) > 0 }

\* what one sample adds to filteredDepth and to totalWeight
Tap(centerDepth, depth, spatial) ==
    IF depth > 0
    THEN LET depthDiff == Abs(centerDepth - depth)
             weight == Mul(spatial, ExpNeg(Mul(DepthFalloff, Mul(depthDiff, depthDiff))))
         IN  [sum |-> Mul(depth, weight), weight |-> weight]
    ELSE [sum |-> 0, weight |-> 0]

\* what the taps i .. TapsOf(shader), both sides of each, add to filteredDepth
\* (part "sum") or to totalWeight (part "weight")
RECURSIVE FilterLoop(_, _, _, _, _, _, _)
FilterLoop(img, x, y, direction, shader, i, part) ==
    IF i > TapsOf(shader) THEN 0
    ELSE Tap(Texel(img, x, y),
             Texel(img, x + i * direction[1], y + i * direction[2]),
             spatialWeight(shader, i))[part]
         + Tap(Texel(img, x, y),
               Texel(img, x - i * direction[1], y - i * direction[2]),
               spatialWeight(shader, i))[part]
         + FilterLoop(img, x, y, direction, shader, i + 1, part)

\* bilateral_filter.frag main for the pixel in column x, row y: fragColor.r
bilateral_filter(img, x, y, direction, shader) ==
    LET centerDepth == Texel(img, x, y)
        w0 == IF shader = "gaussian" THEN Unit ELSE Weights5[1]
    IN  IF centerDepth = 0 THEN 0
        ELSE QuotWide(Mul(centerDepth, w0)
                        + FilterLoop(img, x, y, direction, shader, 1, "sum"),
                      w0 + FilterLoop(img, x, y, direction, shader, 1, "weight"))

\* gl.clear(COLOR_BUFFER_BIT) and _drawFullscreenQuad() with the filter program:
\* every pixel of `target` from the texture of `source`
BlurPass(g, source, target, direction) ==
    CHOOSE out \in
        { IF DrawAllowed(g0, target)
          THEN [g0 EXCEPT !.images[target.texture].pixels =
                   <<bilateral_filter(g0.images[source.texture], 0, 0,
                                      direction, g.blurShader)>>
                   \o [k \in 1..(Len(@) - 1) |->
                          bilateral_filter(g0.images[source.texture],
                                           k % g0.images[source.texture].width,
                                           k \div g0.images[source.texture].width,
                                           direction, g.blurShader)]]
          ELSE g0 :
          g0 \in { ClearTarget(g, target, FALSE) } } : TRUE

\* _bilateralFilter(): horizontal pass depthFBO -> blurFBO1, vertical blurFBO1 -> blurFBO2
_bilateralFilter(w, f, call) ==
    CHOOSE out \in
        { [g |-> DrawInto(BlurPass(g1, f.blurFBO1, f.blurFBO2, <<0, 1>>), f.blurFBO2, call),
           passes |-> w.passes
                      \o <<PassRecord([w.g EXCEPT !.DEPTH_TEST = FALSE], "horizontal",
                                      f.blurFBO1, {f.depthFBO.texture}, {}, call),
                           PassRecord(g1, "vertical", f.blurFBO2,
                                      {f.blurFBO1.texture}, {}, call)>>] :
          g1 \in { DrawInto(BlurPass([w.g EXCEPT !.DEPTH_TEST = FALSE],
                                     f.depthFBO, f.blurFBO1, <<1, 0>>),
                            f.blurFBO1, call) } } : TRUE

\* normal_reconstruction.frag: the alpha of fragColor, 0.0 where the sampled
\* depth is 0.0 (background) and 1.0 elsewhere
normal_reconstruction(depth) == IF depth = 0 THEN 0 ELSE Unit

\* gl.clear(COLOR_BUFFER_BIT) and _drawFullscreenQuad() with the normal program;
\* of the normal field the image keeps the alpha channel of every texel
NormalPass(g, source, target) ==
    CHOOSE out \in
        { IF DrawAllowed(g0, target)
          THEN [g0 EXCEPT !.images[target.texture].pixels =
                   [k \in DOMAIN @ |->
                       normal_reconstruction(g0.images[source.texture].pixels[k])]]
          ELSE g0 :
          g0 \in { ClearTarget(g, target, FALSE) } } : TRUE

\* _reconstructNormals sampling the unfiltered depth field
_reconstructNormals_FromDepth(w, f, call) ==
    LET rec == PassRecord(w.g, "normal", f.normalFBO, {f.depthFBO.texture}, {}, call)
    IN  [g |-> DrawInto(NormalPass(w.g, f.depthFBO, f.normalFBO), f.normalFBO, call),
         passes |-> Append(w.passes, rec)]

\* _reconstructNormals()
_reconstructNormals(w, f, call) ==
    LET rec == PassRecord(w.g, "normal", f.normalFBO, {f.blurFBO2.texture}, {}, call)
    IN  [g |-> DrawInto(NormalPass(w.g, f.blurFBO2, f.normalFBO), f.normalFBO, call),
         passes |-> Append(w.passes, rec)]

\* _renderFluidSurface()
_renderFluidSurface(w, f, call) ==
    LET g0 == [w.g EXCEPT !.DEPTH_TEST = FALSE, !.DEPTH_WRITEMASK = FALSE, !.BLEND = TRUE]
        rec == PassRecord(g0, "shading", NULL,
                          {f.normalFBO.texture, f.blurFBO2.texture}, {}, call)
    IN  [g |-> g0, passes |-> Append(w.passes, rec)]

\* the two fluid shading fragment shaders: the one the renderer imports
\* (shaders/fluid/fluid_shading.frag.glsl, whose main() returns after its
\* depth visualisation) and the studio-lighting one
ShadingShaders == {"debug", "studio"}

\* a colour of the display surface: the expression that produced its rgb, and
\* its alpha
Colour(paint, a) == [paint |-> paint, a |-> a]

\* gl.clearColor(0.039, 0.039, 0.059, 1.0)
ClearPixel == Colour("clear", Unit)

\* fluid_shading.frag: main() for a fragment whose normal texel has alpha
\* normalA and whose depth texel has red channel depth
fluid_shading(shader, normalA, depth) ==
    IF shader = "debug"
    THEN [discard |-> FALSE,
          fragColor |-> IF depth > 0 THEN Colour("depth", Unit)
                        ELSE Colour("background", Unit)]
    ELSE IF normalA = 0
         THEN [discard |-> TRUE, fragColor |-> Colour("none", 0)]
         ELSE [discard |-> FALSE, fragColor |-> Colour("metal", Unit)]

\* gl.blendFunc(SRC_ALPHA, ONE_MINUS_SRC_ALPHA)
Blend(src, dst) ==
    IF src.a = Unit THEN src
    ELSE IF src.a = 0 THEN dst
    ELSE Colour("mix", Mul(src.a, src.a) + Mul(dst.a, Unit - src.a))

\* _drawFullscreenQuad() of _renderFluidSurface(): every pixel of the display
\* surface from the normal field and the filtered depth field
ShadingDraw(g, f, canvas) ==
    [k \in DOMAIN canvas |->
        IF fluid_shading(g.shadingShader, g.images[f.normalFBO.texture].pixels[k],
                         g.images[f.blurFBO2.texture].pixels[k]).discard
        THEN canvas[k]
        ELSE IF g.BLEND
             THEN Blend(fluid_shading(g.shadingShader,
                                      g.images[f.normalFBO.texture].pixels[k],
                                      g.images[f.blurFBO2.texture].pixels[k]).fragColor,
                        canvas[k])
             ELSE fluid_shading(g.shadingShader,
                                g.images[f.normalFBO.texture].pixels[k],
                                g.images[f.blurFBO2.texture].pixels[k]).fragColor]

\* render(): the GL state afterwards and the passes executed, in order
render(g, f, particleBuffer, particleCount, camera, call) ==
    CHOOSE w4 \in
        { _renderFluidSurface(w3, f, call) : w3 \in
            { _reconstructNormals(w2, f, call) : w2 \in
                { _bilateralFilter(w1, f, call) : w1 \in
                    { _renderDepth([g |-> g, passes |-> << >>], f, particleBuffer,
                                   particleCount, camera, call) } } } } :
        TRUE

----------------------------------------------------------------------------
(* Inputs explored *)

DtCap == 330                 \* 0.033

\* per-frame deltaTime values: Math.min(elapsed, 0.033)
DeltaTimes == {0, DtCap \div 2, DtCap}

\* initParticles(): samples inside the ball of radius 0.5, |velocity component| <= 0.025
InitSamples ==
    << [pos |-> Vec3(5000, 0, 0), vel |-> Vec3(250, 0, 0)],
       [pos |-> Vec3(-1200, 3000, -2500), vel |-> Vec3(-100, 250, 30)] >>

\* the draws explored: the samples assigned to the particles in rotation
RandomParticles(n) ==
    { [i \in 1..n |-> InitSamples[((i + k) % Len(InitSamples)) + 1]] : k \in 1..Len(InitSamples) }

\* the draw the application runs start from
InitialDraw(n) == [i \in 1..n |-> InitSamples[((i - 1) % Len(InitSamples)) + 1]]

Gravities == { Vec3(Unit, 0, 0), Vec3(0, -Unit, 0), ZeroVec }

OneTouch == [i \in 1..MaxTouchPoints |-> IF i = 1 THEN <<8000, 2000, Unit, Unit>> ELSE ZeroTouch]
NoTouch == [i \in 1..MaxTouchPoints |-> ZeroTouch]
TouchInputs == { NoTouch, OneTouch }

Attractions == { 0, Unit }

\* what a fetch through an unset sampler may return
UnboundTexels == { ZeroVec, Vec3(Unit, Unit, Unit) }

----------------------------------------------------------------------------
(* Observations *)

NoUpdate == [threw |-> FALSE, read |-> {}, written |-> {}, count |-> 0]

ObsInit ==
    [steps |-> 0,            \* completed update() calls on the current ParticleSystem
     lastUpdate |-> NoUpdate,
     prevBuffer |-> 0,       \* currentBuffer before the last update()
     renders |-> 0,          \* render() calls so far
     lastRender |-> << >>,   \* the passes of the last render() call
     lastCount |-> 0,        \* the particleCount argument of the last render() call
     fingers |-> 0,          \* fingers on the touch surface
     mouseDown |-> FALSE,    \* the primary mouse button is held
     events |-> 0,           \* touch and mouse events so far
     frameUpdates |-> 0,     \* update() calls in the current display refresh
     frameRenders |-> 0,     \* render() calls in the current display refresh
     resizes |-> 0,          \* resize events so far
     switches |-> 0,         \* shape switches so far
     morphTime |-> 0,        \* sum of the frames' deltaTime since the target was last set
     disposed |-> FALSE,     \* dispose() has been called
     canvas |-> << >>]       \* the display surface after the last frame, row by row

----------------------------------------------------------------------------
(* utils/touch.js: TouchManager *)

TouchDecay == 9200           \* 0.92
TouchCutoff == 100           \* 0.01

TouchManager == [i \in 1..MaxTouchPoints |-> [x |-> 0, y |-> 0, z |-> 0, active |-> FALSE]]

SmoothingFactor == 3000      \* 0.3
TouchEndFade == 8000         \* 0.8

\* _onTouch(event): `touches` is event.touches as normalised <<x, y>> pairs
_onTouch(tps, touches) ==
    LET reset == [i \in DOMAIN tps |-> [tps[i] EXCEPT !.active = FALSE]]
    IN  [i \in DOMAIN tps |->
            IF i <= Min(Len(touches), MaxTouchPoints)
            THEN [x |-> IF reset[i].active
                        THEN reset[i].x + Mul(touches[i][1] - reset[i].x, SmoothingFactor)
                        ELSE touches[i][1],
                  y |-> IF reset[i].active
                        THEN reset[i].y + Mul(touches[i][2] - reset[i].y, SmoothingFactor)
                        ELSE touches[i][2],
                  z |-> Unit,
                  active |-> TRUE]
            ELSE reset[i]]

\* _onTouchEnd(event): `remaining` is event.touches.length
_onTouchEnd(tps, remaining) ==
    [i \in DOMAIN tps |->
        IF i - 1 >= remaining
        THEN LET z == Mul(tps[i].z, TouchEndFade)
             IN  IF z < TouchCutoff THEN [tps[i] EXCEPT !.z = 0, !.active = FALSE]
                 ELSE [tps[i] EXCEPT !.z = z]
        ELSE tps[i]]

\* _onMouse(event) with the primary button pressed
_onMouse(tps, x, y) ==
    [tps EXCEPT ![1] = [x |-> x, y |-> y, z |-> Unit, active |-> TRUE]]

\* _onMouseUp()
_onMouseUp(tps) == [tps EXCEPT ![1].active = FALSE, ![1].z = 0]

\* update(): decay the strength of released points
TouchManager_update(tps) ==
    [i \in DOMAIN tps |->
        IF ~tps[i].active /\ tps[i].z > 0
        THEN LET z == Mul(tps[i].z, TouchDecay)
             IN  [tps[i] EXCEPT !.z = IF z < TouchCutoff THEN 0 ELSE z]
        ELSE tps[i]]

\* getUniformData() as animate() regroups it into Vector4s
getUniformData(tps) ==
    [i \in DOMAIN tps |-> <<tps[i].x, tps[i].y, tps[i].z, IF tps[i].active THEN Unit ELSE 0>>]

----------------------------------------------------------------------------
(* main.js: MercuryApp *)

ShapeAttractionTarget == 8000    \* 0.8
RampSpeed == 5000                \* 0.5 per second

\* canvas-container sizes (clientWidth, clientHeight)
InitialSize == <<2, 2>>
Sizes == { InitialSize, <<3, 2>> }

\* where start() throws: nowhere, in initThree(), in ParticleSystem.init(), in
\* compileUpdateProgram(), in ParticleRenderer.init(), or in FluidRenderer's
\* _compilePrograms() at its last program
FailPoints == { "none", "initThree", "init", "updateProgram", "particleRenderer",
                "shadingProgram" }

\* time between two display refreshes (seconds * Unit)
FrameIntervals == { 3 * DtCap }

\* the state after the constructor
MercuryApp(size) ==
    [camera |-> NULL,
     renderer |-> FALSE,
     updateProgram |-> NULL,
     particleRenderer |-> NULL,
     shapeManager |-> NULL,
     currentShapeIndex |-> 0,
     shapeAttractionTarget |-> ShapeAttractionTarget,
     cameraStream |-> FALSE,
     gravity |-> Vec3(0, -Unit, 0),      \* sensorManager.smoothedGravity
     sensors |-> FALSE,                  \* sensorManager started
     touchPoints |-> TouchManager,
     touchBound |-> 0,                   \* touchManager.bind() calls
     isRunning |-> FALSE,
     lastTime |-> 0,
     overlay |-> "permission",           \* the overlay shown, or "none"
     container |-> size,
     starts |-> 0]                       \* start() calls so far

SchedInit ==
    [raf |-> 0,              \* callbacks registered with requestAnimationFrame
     toRun |-> 0,            \* callbacks of the current refresh still to run
     awaiting |-> 0,         \* start() calls suspended in requestPermissions()
     now |-> 0,              \* clock.getElapsedTime()
     frames |-> 0]           \* display refreshes so far

showLoading(a) == [a EXCEPT !.overlay = "loading"]
hideOverlays(a) == [a EXCEPT !.overlay = "none"]
showError(a) == [a EXCEPT !.overlay = "error"]

\* initThree(): the camera is replaced before the WebGLRenderer constructor can throw
initThree(w, throws) ==
    LET cam == [width |-> w.app.container[1], height |-> w.app.container[2]]
    IN  IF throws THEN [w EXCEPT !.app.camera = cam]
        ELSE [w EXCEPT !.app.camera = cam, !.app.renderer = TRUE]

ParticleRenderer(gen) == [gen |-> gen, program |-> NULL]

UpdateProgram(gen) == Res("program", gen, "updateProgram")

\* createParticleSystem(), up to the statement that throws (failAt)
createParticleSystem(w, failAt, random) ==
    LET gen == w.app.starts
        p0 == ParticleSystem(gen, ParticleCount)
        w0 == [w EXCEPT !.ps = p0, !.obs.steps = 0, !.obs.lastUpdate = NoUpdate,
                        !.obs.prevBuffer = 0]
        p1 == init(p0, random)
        w1 == [w0 EXCEPT !.ps = p1]
        w2 == [w1 EXCEPT !.gl = GLCreate(@, {UpdateProgram(gen)}),
                         !.app.updateProgram = UpdateProgram(gen)]
        w3 == [w2 EXCEPT !.ps = setupTransformFeedback(p1),
                         !.gl = setupTransformFeedback_gl(@, p1)]
        w4 == [w3 EXCEPT !.app.particleRenderer = ParticleRenderer(gen)]
        rp == Res("program", gen, "particleRenderer")
        w5 == [w4 EXCEPT !.app.particleRenderer.program = rp, !.gl = GLCreate(@, {rp})]
        w6 == [w5 EXCEPT
                 !.fr = FluidRenderer(gen, w.gl.allocs + 1,
                                      w.app.container[1], w.app.container[2]),
                 !.gl = _createFramebuffers_gl(GLCreate(@, CompiledPrograms(gen, 0)), gen,
                                               @.allocs + 1,
                                               w.app.container[1], w.app.container[2])]
        m == ShapeManager(ParticleCount)
        t == createTargetTexture(m)
        w7 == [w6 EXCEPT !.app.shapeManager = m,
                         !.ps = setShapeAttraction(setShapeTarget(@, t.data, t.size), 0),
                         !.gl = setShapeTarget_gl(@, p0)]
    IN  CASE failAt = "init" -> w0
          [] failAt = "updateProgram" -> w1
          [] failAt = "particleRenderer" -> w4
          [] failAt = "shadingProgram" -> [w5 EXCEPT !.gl = GLCreate(@, CompiledPrograms(gen, 4))]
          [] OTHER -> w7

\* start() up to the point where it suspends in requestPermissions(), or to the
\* end of its catch block
start(w, failAt, random) ==
    LET w0 == [w EXCEPT !.app = [showLoading(@) EXCEPT !.starts = @ + 1]]
        w1 == IF failAt = "initThree" THEN initThree(w0, TRUE)
              ELSE createParticleSystem(initThree(w0, FALSE), failAt, random)
    IN  IF failAt = "none"
        THEN [w1 EXCEPT !.sched.awaiting = @ + 1]
        ELSE [w1 EXCEPT !.app = showError(@)]

\* the pipeline animate() drives was built completely by one start()
PipelineBuilt(p, f, a) ==
    /\ p # NULL /\ f # NULL
    /\ p.gl /\ p.bufferA # NULL /\ p.bufferB # NULL
    /\ p.transformFeedbackA # NULL /\ p.transformFeedbackB # NULL
    /\ p.uniforms.uTargetTexture # NoData
    /\ a.updateProgram = UpdateProgram(p.gen)
    /\ a.particleRenderer # NULL
    /\ a.particleRenderer.gen = p.gen
    /\ a.particleRenderer.program # NULL
    /\ f.gen = p.gen

\* animate() from its requestAnimationFrame call to particleSystem.update()
animateUpdate(w, unbound) ==
    LET currentTime == w.sched.now
        deltaTime == Min(currentTime - w.app.lastTime, DtCap)
        tps == TouchManager_update(w.app.touchPoints)
        g == w.app.gravity
        p0 == [w.ps EXCEPT !.uniforms.uTime = currentTime]
        p1 == setTouchPoints(setGravity(p0, g[1], g[2], g[3]), getUniformData(tps))
        p2 == IF p1.uniforms.uShapeAttraction < w.app.shapeAttractionTarget
              THEN setShapeAttraction(p1,
                       Min(p1.uniforms.uShapeAttraction + Mul(deltaTime, RampSpeed),
                           w.app.shapeAttractionTarget))
              ELSE p1
    IN  [w EXCEPT !.sched.raf = @ + 1,
                  !.app.lastTime = currentTime,
                  !.app.touchPoints = tps,
                  !.ps = update(p2, deltaTime),
                  !.gl = update_gl(@, p2, deltaTime, unbound),
                  !.obs.lastUpdate = update_obs(w.gl, p2),
                  !.obs.prevBuffer = p2.currentBuffer,
                  !.obs.steps = IF updateThrows(p2) THEN @ ELSE @ + 1]

\* animateRender handing render() the buffer the step read from
animateRender_ReadBuffer(w) ==
    IF w.obs.lastUpdate.threw
    THEN [w EXCEPT !.app = showError(@)]
    ELSE CHOOSE w1 \in
            { [w EXCEPT !.gl = r.g, !.obs.renders = @ + 1, !.obs.lastRender = r.passes,
                        !.obs.lastCount = ParticleCount] :
                r \in { render(w.gl, w.fr,
                               IF w.ps.currentBuffer = 0 THEN w.ps.bufferB ELSE w.ps.bufferA,
                               ParticleCount, w.app.camera, w.obs.renders + 1) } } :
            TRUE

\* animate() after particleSystem.update(): an exception thrown by update()
\* reaches window.onerror, which calls showError(); otherwise the canvas is
\* cleared and fluidRenderer.render() runs
animateRender(w) ==
    IF w.obs.lastUpdate.threw
    THEN [w EXCEPT !.app = showError(@)]
    ELSE CHOOSE w1 \in
            { [w EXCEPT !.gl = r.g, !.obs.renders = @ + 1, !.obs.lastRender = r.passes,
                        !.obs.lastCount = ParticleCount] :
                r \in { render(w.gl, w.fr, getCurrentBuffer(w.ps), ParticleCount,
                               w.app.camera, w.obs.renders + 1) } } :
            TRUE

\* animate()
animate(w, unbound) ==
    IF ~w.app.isRunning THEN w
    ELSE CHOOSE w2 \in { animateRender(w1) : w1 \in { animateUpdate(w, unbound) } } : TRUE

\* start() from the return of requestPermissions() to its end
startResume(w, granted, unbound) ==
    LET w0 == [w EXCEPT !.sched.awaiting = @ - 1,
                        !.app.cameraStream = IF granted THEN TRUE ELSE @,
                        !.app.touchBound = @ + 1,
                        !.app.sensors = TRUE,
                        !.app.overlay = "none",
                        !.app.isRunning = TRUE]
    IN  animate(w0, unbound)

\* switchToNextShape without the reset of the attraction
switchToNextShape_NoReset(w, draw) ==
    IF w.app.shapeManager = NULL THEN w
    ELSE LET index == (w.app.currentShapeIndex + 1) % Len(ShapeNames)
             m == updateShape(w.app.shapeManager, ShapeNames[index + 1], draw)
             t == createTargetTexture(m)
             w0 == [w EXCEPT !.app.currentShapeIndex = index, !.app.shapeManager = m]
         IN  IF ~w.ps.gl THEN [w0 EXCEPT !.app = showError(@)]
             ELSE [w0 EXCEPT !.ps = setShapeTarget(@, t.data, t.size),
                             !.gl = setShapeTarget_gl(@, w.ps)]

\* switchToNextShape uploading the texture of the shape that is being left
switchToNextShape_StaleTexture(w, draw) ==
    IF w.app.shapeManager = NULL THEN w
    ELSE LET index == (w.app.currentShapeIndex + 1) % Len(ShapeNames)
             m == updateShape(w.app.shapeManager, ShapeNames[index + 1], draw)
             t == createTargetTexture(w.app.shapeManager)
             w0 == [w EXCEPT !.app.currentShapeIndex = index, !.app.shapeManager = m]
         IN  IF ~w.ps.gl THEN [w0 EXCEPT !.app = showError(@)]
             ELSE [w0 EXCEPT !.ps = setShapeAttraction(setShapeTarget(@, t.data, t.size), 0),
                             !.gl = setShapeTarget_gl(@, w.ps)]

\* switchToNextShape(); with a particle system whose init() never ran,
\* setShapeTarget() throws and window.onerror shows the error overlay
switchToNextShape(w, draw) ==
    IF w.app.shapeManager = NULL THEN w
    ELSE LET index == (w.app.currentShapeIndex + 1) % Len(ShapeNames)
             m == updateShape(w.app.shapeManager, ShapeNames[index + 1], draw)
             t == createTargetTexture(m)
             w0 == [w EXCEPT !.app.currentShapeIndex = index, !.app.shapeManager = m]
         IN  IF ~w.ps.gl THEN [w0 EXCEPT !.app = showError(@)]
             ELSE [w0 EXCEPT !.ps = setShapeAttraction(setShapeTarget(@, t.data, t.size), 0),
                             !.gl = setShapeTarget_gl(@, w.ps)]

\* onResize()
onResize(w) ==
    IF w.app.camera = NULL \/ ~w.app.renderer
    THEN w
    ELSE LET width == w.app.container[1]
             height == w.app.container[2]
             w0 == [w EXCEPT !.app.camera = [width |-> width, height |-> height]]
         IN  IF w.fr = NULL THEN w0
             ELSE [w0 EXCEPT !.fr = resize(@, width, height, w.gl.allocs + 1),
                             !.gl = resize_gl(@, w.fr, width, height)]

ParticleRenderer_dispose_gl(g, r) ==
    IF r.program = NULL THEN g ELSE GLDelete(g, {r.program})

\* dispose()
dispose(w) ==
    LET g0 == IF w.ps = NULL THEN w.gl ELSE ParticleSystem_dispose_gl(w.gl, w.ps)
        g1 == IF w.app.particleRenderer = NULL THEN g0
              ELSE ParticleRenderer_dispose_gl(g0, w.app.particleRenderer)
        g2 == IF w.app.updateProgram = NULL THEN g1 ELSE GLDelete(g1, {w.app.updateProgram})
    IN  [w EXCEPT !.app.isRunning = FALSE,
                  !.app.sensors = FALSE,
                  !.gl = g2]

----------------------------------------------------------------------------
(* The particle system on its own: constructed and set up as
   createParticleSystem() does, then driven through its public methods *)

SimParticleSystem(random) ==
    LET p0 == setupTransformFeedback(init(ParticleSystem(1, ParticleCount), random))
        t == createTargetTexture(ShapeManager(ParticleCount))
    IN  setShapeAttraction(setShapeTarget(p0, t.data, t.size), 0)

SimContext(random) ==
    LET p0 == init(ParticleSystem(1, ParticleCount), random)
    IN  setShapeTarget_gl(setupTransformFeedback_gl(NewContext, p0), p0)

SimInit ==
    /\ \E random \in RandomParticles(ParticleCount),
          g \in Gravities, a \in Attractions, tp \in TouchInputs :
          /\ ps = setGravity(setTouchPoints(setShapeAttraction(SimParticleSystem(random), a), tp),
                             g[1], g[2], g[3])
          /\ gl = SimContext(random)
    /\ fr = NULL
    /\ app = NULL
    /\ sched = SchedInit
    /\ obs = ObsInit

SimUpdate ==
    /\ obs.steps < MaxSteps
    /\ \E dt \in DeltaTimes :
          /\ gl' = update_gl(gl, ps, dt, ZeroVec)     \* the target texture is set: no unbound fetch
          /\ ps' = update(ps, dt)
          /\ obs' = [obs EXCEPT !.steps = @ + 1,
                                !.lastUpdate = update_obs(gl, ps),
                                !.prevBuffer = ps.currentBuffer]
    /\ UNCHANGED <<fr, app, sched>>

SimNext == SimUpdate

SpecSim == SimInit /\ [][SimNext]_vars

----------------------------------------------------------------------------
(* One simulation step as a function of its inputs: the particle buffers and
   the public uniforms fields hold chosen values, then update() runs *)

\* particle states handed to the step: at rest near the floor; fast toward +x
StepSamples ==
    << [pos |-> Vec3(0, -9500, 0), vel |-> ZeroVec],
       [pos |-> Vec3(4500, 0, 0), vel |-> Vec3(2 * Unit, 5000, 0)] >>

StepParticles(n) ==
    { [i \in 1..n |-> StepSamples[((i + k) % Len(StepSamples)) + 1]] : k \in 1..Len(StepSamples) }

\* values of the uniforms fields: the constructor's and those of a unit box
StepUniforms ==
    [uBounds : { Vec3(BoundsX, BoundsY, BoundsZ), Vec3(Unit, Unit, Unit) },
     uBounce : { DefaultBounce, 5000 },
     uDamping : { DefaultDamping, Unit },
     uGravity : { ZeroVec, Vec3(0, -GravityAccel, 0) }]

\* deltaTime arguments of update(): 0.033 and 0.1
StepDeltaTimes == { DtCap, 1000 }

StepInit ==
    /\ \E random \in StepParticles(ParticleCount), u \in StepUniforms :
          /\ ps = [setGravity(SimParticleSystem(random),
                              u.uGravity[1], u.uGravity[2], u.uGravity[3])
                      EXCEPT !.uniforms.uBounds = u.uBounds,
                             !.uniforms.uBounce = u.uBounce,
                             !.uniforms.uDamping = u.uDamping]
          /\ gl = SimContext(random)
    /\ fr = NULL
    /\ app = NULL
    /\ sched = SchedInit
    /\ obs = ObsInit

StepUpdate ==
    /\ obs.steps < MaxSteps
    /\ \E dt \in StepDeltaTimes :
          /\ gl' = update_gl(gl, ps, dt, ZeroVec)
          /\ ps' = update(ps, dt)
          /\ obs' = [obs EXCEPT !.steps = @ + 1,
                                !.lastUpdate = update_obs(gl, ps),
                                !.prevBuffer = ps.currentBuffer]
    /\ UNCHANGED <<fr, app, sched>>

StepNext == StepUpdate

SpecStep == StepInit /\ [][StepNext]_vars

----------------------------------------------------------------------------
(* The shape manager on its own: constructed for N particles, its texture
   handed to a particle system of N particles, then asked for other shapes *)

ShapeInit ==
    /\ \E n \in 1..MaxShapeCount :
          \E p0 \in { init(ParticleSystem(1, n), InitialDraw(n)) },
             t \in { createTargetTexture(ShapeManager(n)) } :
             /\ ps = setShapeAttraction(
                         setShapeTarget(setupTransformFeedback(p0), t.data, t.size), 0)
             /\ gl = setShapeTarget_gl(setupTransformFeedback_gl(NewContext, p0), p0)
             /\ app = [MercuryApp(InitialSize) EXCEPT !.shapeManager = ShapeManager(n)]
    /\ fr = NULL
    /\ sched = SchedInit
    /\ obs = ObsInit

\* updateShape(shapeName), createTargetTexture() and setShapeTarget(data, size)
ShapeUpdate ==
    /\ obs.switches < MaxShapeUpdates
    /\ \E index \in 1..Len(ShapeNames), draw \in ShapeDraws :
          \E m \in { updateShape(app.shapeManager, ShapeNames[index], draw) } :
             \E t \in { createTargetTexture(m) } :
                /\ app' = [app EXCEPT !.shapeManager = m, !.currentShapeIndex = index - 1]
                /\ ps' = setShapeTarget(ps, t.data, t.size)
                /\ gl' = setShapeTarget_gl(gl, ps)
    /\ obs' = [obs EXCEPT !.switches = @ + 1]
    /\ UNCHANGED <<fr, sched>>

ShapeNext == ShapeUpdate

SpecShape == ShapeInit /\ [][ShapeNext]_vars

\* names that are none of the four shapes: one that `shapes` does not have at
\* all, and the inherited ones
OtherNames == {"pyramid"} \cup InheritedNames

\* updateShape(shapeName) with such a name
ShapeUpdateNamed ==
    /\ obs.switches < MaxShapeUpdates
    /\ \E shapeName \in OtherNames :
          app' = [app EXCEPT !.shapeManager = updateShape(@, shapeName, 1)]
    /\ obs' = [obs EXCEPT !.switches = @ + 1]
    /\ UNCHANGED <<ps, fr, gl, sched>>

NamesNext == ShapeUpdate \/ ShapeUpdateNamed

SpecNames == ShapeInit /\ [][NamesNext]_vars

----------------------------------------------------------------------------
(* The touch manager on its own: touch and mouse events arrive between the
   per-frame update() calls of animate() *)

\* where finger 1 and finger 2 rest (normalised element coordinates)
TouchSpots == << <<8000, 2000>>, <<-5000, -5000>> >>

TouchInit ==
    /\ ps = NULL
    /\ fr = NULL
    /\ gl = NewContext
    /\ app = MercuryApp(InitialSize)
    /\ sched = SchedInit
    /\ obs = ObsInit

\* touchstart: one more finger, event.touches lists all fingers down
TouchStart ==
    /\ obs.events < MaxTouchEvents
    /\ obs.fingers < Len(TouchSpots)
    /\ app' = [app EXCEPT !.touchPoints = _onTouch(@, SubSeq(TouchSpots, 1, obs.fingers + 1))]
    /\ obs' = [obs EXCEPT !.fingers = @ + 1, !.events = @ + 1]
    /\ UNCHANGED <<ps, fr, gl, sched>>

\* touchmove: the fingers down report their positions
TouchMove ==
    /\ obs.events < MaxTouchEvents
    /\ obs.fingers > 0
    /\ app' = [app EXCEPT !.touchPoints = _onTouch(@, SubSeq(TouchSpots, 1, obs.fingers))]
    /\ obs' = [obs EXCEPT !.events = @ + 1]
    /\ UNCHANGED <<ps, fr, gl, sched>>

\* touchend / touchcancel: one finger fewer
TouchEnd ==
    /\ obs.events < MaxTouchEvents
    /\ obs.fingers > 0
    /\ app' = [app EXCEPT !.touchPoints = _onTouchEnd(@, obs.fingers - 1)]
    /\ obs' = [obs EXCEPT !.fingers = @ - 1, !.events = @ + 1]
    /\ UNCHANGED <<ps, fr, gl, sched>>

\* mousedown
MouseDown ==
    /\ obs.events < MaxTouchEvents
    /\ ~obs.mouseDown
    /\ app' = [app EXCEPT !.touchPoints = _onMouse(@, TouchSpots[2][1], TouchSpots[2][2])]
    /\ obs' = [obs EXCEPT !.mouseDown = TRUE, !.events = @ + 1]
    /\ UNCHANGED <<ps, fr, gl, sched>>

\* mouseup / mouseleave
MouseUp ==
    /\ obs.events < MaxTouchEvents
    /\ obs.mouseDown
    /\ app' = [app EXCEPT !.touchPoints = _onMouseUp(@)]
    /\ obs' = [obs EXCEPT !.mouseDown = FALSE, !.events = @ + 1]
    /\ UNCHANGED <<ps, fr, gl, sched>>

\* animate() calls touchManager.update() once per frame (frames are counted
\* modulo 2, so that a frame that changes no touch point is a step as well)
TouchFrame ==
    /\ app' = [app EXCEPT !.touchPoints = TouchManager_update(@)]
    /\ sched' = [sched EXCEPT !.frames = (@ + 1) % 2]
    /\ UNCHANGED <<ps, fr, gl, obs>>

TouchNext == TouchStart \/ TouchMove \/ TouchEnd \/ MouseDown \/ MouseUp \/ TouchFrame

SpecTouch == TouchInit /\ [][TouchNext]_vars

----------------------------------------------------------------------------
(* The application: the page's events and display refreshes drive MercuryApp *)

\* the fetch results to consider for the next update()
UnboundFor(p) ==
    IF p # NULL /\ p.uniforms.uTargetTexture = NoData THEN UnboundTexels ELSE {ZeroVec}

World == [ps |-> ps, fr |-> fr, gl |-> gl, app |-> app, sched |-> sched, obs |-> obs]

Commit(w) ==
    /\ ps' = w.ps
    /\ fr' = w.fr
    /\ gl' = w.gl
    /\ app' = w.app
    /\ sched' = w.sched
    /\ obs' = w.obs

\* no event handler runs while the callbacks of a display refresh are being run
Idle == sched.toRun = 0

Init ==
    /\ ps = NULL
    /\ fr = NULL
    /\ \E kind \in ContextKinds : gl = ContextOf(kind)
    /\ app = MercuryApp(InitialSize)
    /\ sched = SchedInit
    /\ obs = ObsInit

\* startBtn click
StartClick ==
    /\ Idle
    /\ app.overlay = "permission"
    /\ app.starts < MaxStarts
    /\ \E failAt \in FailPoints :
          \E w \in {start(World, failAt, InitialDraw(ParticleCount))} : Commit(w)

\* retryBtn click
RetryClick ==
    /\ Idle
    /\ app.overlay = "error"
    /\ app.starts < MaxStarts
    /\ \E failAt \in FailPoints :
          \E w \in {start(World, failAt, InitialDraw(ParticleCount))} : Commit(w)

\* requestPermissions() settles (granted or rejected) and start() continues
StartResume ==
    /\ Idle
    /\ sched.awaiting > 0
    /\ \E granted \in BOOLEAN, unbound \in UnboundFor(ps) :
          \E w \in {startResume(World, granted, unbound)} : Commit(w)

\* window.onerror / window.onunhandledrejection
ReportError ==
    /\ Idle
    /\ Commit([World EXCEPT !.app = showError(@)])

\* window resize event
Resize ==
    /\ Idle
    /\ obs.resizes < MaxResizes
    /\ \E size \in Sizes \ {app.container} :
          \E w \in {onResize([World EXCEPT !.app.container = size, !.obs.resizes = @ + 1])} :
             Commit(w)

Dispose ==
    /\ Idle
    /\ \E w \in {dispose(World)} : Commit(w)

\* a display refresh begins: the registered callbacks are taken to be run
BeginFrame ==
    /\ Idle
    /\ sched.raf > 0
    /\ sched.frames < MaxFrames
    /\ \E elapsed \in FrameIntervals :
          sched' = [sched EXCEPT !.toRun = sched.raf, !.raf = 0,
                                 !.now = @ + elapsed, !.frames = @ + 1]
    /\ obs' = [obs EXCEPT !.frameUpdates = 0, !.frameRenders = 0]
    /\ UNCHANGED <<ps, fr, gl, app>>

\* one requestAnimationFrame callback runs animate()
RunCallback ==
    /\ sched.toRun > 0
    /\ \E unbound \in UnboundFor(ps) :
          \E w \in {animate([World EXCEPT !.sched.toRun = @ - 1], unbound)} :
             Commit([w EXCEPT
                 !.obs.frameUpdates = IF app.isRunning THEN @ + 1 ELSE @,
                 !.obs.frameRenders = @ + (w.obs.renders - obs.renders)])

Next ==
    \/ StartClick
    \/ RetryClick
    \/ StartResume
    \/ ReportError
    \/ Resize
    \/ Dispose
    \/ BeginFrame
    \/ RunCallback

Spec == Init /\ [][Next]_vars

----------------------------------------------------------------------------
(* The fluid renderer on its own: constructed as createParticleSystem() does,
   then resized and asked to render *)

FluidInit ==
    /\ \E kind \in ContextKinds, size \in Sizes, shader \in BlurShaders,
          shading \in ShadingShaders :
          /\ gl = _createFramebuffers_gl(
                     GLCreate([SimContext(InitialDraw(ParticleCount))
                                  EXCEPT !.floatRenderable = kind.floatRenderable,
                                         !.floatBlend = kind.floatBlend,
                                         !.blurShader = shader,
                                         !.shadingShader = shading],
                              CompiledPrograms(1, 0)),
                     1, 1, size[1], size[2])
          /\ fr = FluidRenderer(1, 1, size[1], size[2])
    /\ ps = SimParticleSystem(InitialDraw(ParticleCount))
    /\ app = NULL
    /\ sched = SchedInit
    /\ obs = ObsInit

FluidResize ==
    /\ obs.resizes < MaxResizes
    /\ \E size \in Sizes :
          /\ fr' = resize(fr, size[1], size[2], gl.allocs + 1)
          /\ gl' = resize_gl(gl, fr, size[1], size[2])
    /\ obs' = [obs EXCEPT !.resizes = @ + 1]
    /\ UNCHANGED <<ps, app, sched>>

FluidRender ==
    /\ obs.renders < MaxFrames
    /\ \E particleCount \in {0, ParticleCount} :
          \E r \in { render(gl, fr, getCurrentBuffer(ps), particleCount,
                            [width |-> fr.width, height |-> fr.height], obs.renders + 1) } :
             /\ gl' = r.g
             /\ obs' = [obs EXCEPT !.renders = @ + 1, !.lastRender = r.passes,
                                   !.lastCount = particleCount]
    /\ UNCHANGED <<ps, fr, app, sched>>

FluidNext == FluidResize \/ FluidRender

SpecFluid == FluidInit /\ [][FluidNext]_vars

----------------------------------------------------------------------------
(* The running application: start() has completed, then display refreshes
   and clicks on the shape button follow *)

MorphInit ==
    /\ \E kind \in ContextKinds :
          \E w \in { startResume(
                        start([ps |-> NULL, fr |-> NULL,
                               gl |-> ContextOf(kind),
                               app |-> MercuryApp(InitialSize),
                               sched |-> SchedInit, obs |-> ObsInit],
                              "none", InitialDraw(ParticleCount)),
                        TRUE, ZeroVec) } :
             /\ ps = w.ps
             /\ fr = w.fr
             /\ gl = w.gl
             /\ app = w.app
             /\ sched = w.sched
             /\ obs = w.obs

\* a display refresh runs the registered animate() callback
MorphFrame ==
    /\ sched.raf = 1
    /\ sched.frames < MaxMorphFrames
    /\ \E elapsed \in FrameIntervals :
          \E w \in { animate([World EXCEPT !.sched.raf = 0, !.sched.now = @ + elapsed,
                                           !.sched.frames = @ + 1], ZeroVec) } :
             Commit([w EXCEPT
                 !.obs.morphTime = @ + Min(w.sched.now - app.lastTime, DtCap)])

\* shapeSwitchBtn click
MorphSwitch ==
    /\ obs.switches < MaxSwitches
    /\ sched.frames <= MaxSwitchFrame
    /\ \E draw \in ShapeDraws :
          \E w \in { switchToNextShape(World, draw) } :
             Commit([w EXCEPT !.obs.switches = @ + 1, !.obs.morphTime = 0])

MorphNext == MorphFrame \/ MorphSwitch

SpecMorph == MorphInit /\ [][MorphNext]_vars

----------------------------------------------------------------------------
(* The shape cycle of the application: start and retry clicks, reported
   errors and shape-switch clicks, with no display refresh in between *)

\* shapeSwitchBtn click
CycleSwitch ==
    /\ Idle
    /\ obs.switches < MaxClicks
    /\ \E draw \in ShapeDraws :
          \E w \in { switchToNextShape(World, draw) } :
             Commit([w EXCEPT !.obs.switches = @ + 1])

CycleNext == StartClick \/ RetryClick \/ StartResume \/ ReportError \/ CycleSwitch

SpecCycle == Init /\ [][CycleNext]_vars

----------------------------------------------------------------------------
(* The shape button of the running application: start() has completed, then
   clicks on the shape button and a few display refreshes follow *)

\* a display refresh runs the registered animate() callback
SwitchFrame ==
    /\ sched.raf = 1
    /\ sched.frames < MaxFrames
    /\ \E elapsed \in FrameIntervals :
          \E w \in { animate([World EXCEPT !.sched.raf = 0, !.sched.now = @ + elapsed,
                                           !.sched.frames = @ + 1], ZeroVec) } :
             Commit(w)

SwitchNext == SwitchFrame \/ CycleSwitch

SpecSwitch == MorphInit /\ [][SwitchNext]_vars

----------------------------------------------------------------------------
(* The teardown of the running application: start() has completed, then
   dispose() is called while display refreshes, resize events and clicks on
   the shape button keep arriving *)

\* dispose()
DisposeCall ==
    /\ Idle
    /\ ~obs.disposed
    /\ \E w \in { dispose(World) } : Commit([w EXCEPT !.obs.disposed = TRUE])

DisposeNext == DisposeCall \/ SwitchFrame \/ Resize \/ CycleSwitch

SpecDispose == MorphInit /\ [][DisposeNext]_vars

----------------------------------------------------------------------------
(* The display surface: the renderer on its own as in SpecFluid, each frame
   clearing the canvas before render() as animate() does *)

\* animate(): gl.clear(COLOR_BUFFER_BIT | DEPTH_BUFFER_BIT), then render()
ShadeFrame ==
    /\ obs.renders < MaxFrames
    /\ \E particleCount \in {0, ParticleCount} :
          \E r \in { render(gl, fr, getCurrentBuffer(ps), particleCount,
                            [width |-> fr.width, height |-> fr.height], obs.renders + 1) } :
             /\ gl' = r.g
             /\ obs' = [obs EXCEPT !.renders = @ + 1, !.lastRender = r.passes,
                                   !.lastCount = particleCount,
                                   !.canvas = ShadingDraw(r.g, fr,
                                                 [k \in 1..(fr.width * fr.height) |->
                                                     ClearPixel])]
    /\ UNCHANGED <<ps, fr, app, sched>>

ShadeNext == FluidResize \/ ShadeFrame

SpecShade == FluidInit /\ [][ShadeNext]_vars

----------------------------------------------------------------------------
(* Properties of the particle system (SpecSim) *)

HasBuffers == ps # NULL /\ ps.bufferA # NULL /\ ps.bufferB # NULL

\* the GL buffers a draw reads through the VAO of buffer b
ReadSet(b) == {b.posBuffer, b.velBuffer, b.idBuffer}

\* the GL buffers of b that hold simulation state
StateSet(b) == {b.posBuffer, b.velBuffer}

\* the GL buffers the next update() would capture into
NextWritten == LET out == gl.tfs[writeTF(ps)] IN {out[1], out[2]}

\* C1: every update() reads one buffer of the pair {A, B} through its VAO and
\* captures position and velocity into the other one; at every instant the
\* readable buffer (the current one) and the writable buffer (the target of the
\* next update) are the two different buffers of the pair.
PingPongDisjoint ==
    HasBuffers =>
        /\ \E r, w \in {ps.bufferA, ps.bufferB} :
              /\ r # w
              /\ r = getCurrentBuffer(ps)
              /\ NextWritten = StateSet(w)
              /\ ReadSet(r) \cap NextWritten = {}
        /\ (obs.steps > 0 /\ ~obs.lastUpdate.threw) =>
              \E r, w \in {ps.bufferA, ps.bufferB} :
                 /\ r # w
                 /\ obs.lastUpdate.read = ReadSet(r)
                 /\ obs.lastUpdate.written = StateSet(w)
                 /\ obs.lastUpdate.read \cap obs.lastUpdate.written = {}

\* both directions of the ping-pong have been used
PingPongWitness ==
    /\ HasBuffers
    /\ obs.steps >= 2
    /\ obs.lastUpdate.read = ReadSet(ps.bufferB)
    /\ obs.lastUpdate.written = StateSet(ps.bufferA)

\* C2: one update() exchanges the roles of the two buffers, and after k
\* updates currentBuffer = k mod 2 (0 = A), so two updates restore the roles.
SelectorAlternates ==
    HasBuffers =>
        /\ ps.currentBuffer = obs.steps % 2
        /\ obs.steps > 0 => ps.currentBuffer = 1 - obs.prevBuffer

SelectorWitness == HasBuffers /\ obs.steps = 3 /\ ps.currentBuffer = 1

IdArray(n) == [i \in 1..n |-> i - 1]

\* C3: after any number of updates both buffers hold ParticleCount positions,
\* velocities and ids, the ids are 0..N-1 with id i at index i, no update
\* captured into an id buffer, and particleCount is unchanged.
ParticleSetInvariant ==
    HasBuffers =>
        /\ ps.particleCount = ParticleCount
        /\ \A b \in {ps.bufferA, ps.bufferB} : b.idBuffer \notin obs.lastUpdate.written
        /\ \A b \in {ps.bufferA, ps.bufferB} :
              /\ Len(gl.buffers[b.posBuffer]) = ParticleCount
              /\ Len(gl.buffers[b.velBuffer]) = ParticleCount
              /\ gl.buffers[b.idBuffer] = IdArray(ParticleCount)
        /\ (obs.steps > 0 /\ ~obs.lastUpdate.threw) => obs.lastUpdate.count = ParticleCount

ParticleSetWitness ==
    /\ HasBuffers
    /\ obs.steps >= 2
    /\ gl.buffers[ps.bufferA.posBuffer] # ps.initialPositions
    /\ gl.buffers[ps.bufferB.posBuffer] # ps.initialPositions

CurrentPositions == gl.buffers[getCurrentBuffer(ps).posBuffer]
CurrentVelocities == gl.buffers[getCurrentBuffer(ps).velBuffer]

\* C4: after any number of updates every position component of every particle
\* of the current buffer lies within [-halfBounds, halfBounds].
BoundaryContainment ==
    HasBuffers =>
        \A i \in 1..ps.particleCount : \A a \in Axes :
            /\ CurrentPositions[i][a] >= -halfBounds(ps.uniforms)[a]
            /\ CurrentPositions[i][a] <= halfBounds(ps.uniforms)[a]

\* a particle was clamped to the +x wall and bounced back
BoundaryWitness ==
    /\ HasBuffers
    /\ obs.steps > 0
    /\ \E i \in 1..ps.particleCount :
          /\ CurrentPositions[i][1] = halfBounds(ps.uniforms)[1]
          /\ CurrentVelocities[i][1] < 0

\* the particle state held by the GL buffers of b
BufferState(g, b) ==
    [pos |-> g.buffers[b.posBuffer], vel |-> g.buffers[b.velBuffer],
     ids |-> g.buffers[b.idBuffer]]

OtherBuffer(p) == IF p.currentBuffer = 0 THEN p.bufferB ELSE p.bufferA

\* the state one step after state s under the uniforms u
StepFrom(s, u) ==
    [pos |-> [i \in DOMAIN s.pos |-> ShaderMain(s.pos[i], s.vel[i], s.ids[i], u).pos],
     vel |-> [i \in DOMAIN s.pos |-> ShaderMain(s.pos[i], s.vel[i], s.ids[i], u).vel],
     ids |-> s.ids]

\* C28: before the first update both buffers hold the initial state; every
\* update leaves the buffer it read from unchanged, so afterwards the current
\* buffer holds the state one step after the one the other buffer still holds;
\* and an update changes no uniform except uDeltaTime.
UpdateKeepsReadBuffer ==
    /\ [](obs.steps = 0 =>
             \A b \in {ps.bufferA, ps.bufferB} :
                BufferState(gl, b) = [pos |-> ps.initialPositions,
                                      vel |-> ps.initialVelocities,
                                      ids |-> ps.initialIds])
    /\ [][obs'.steps = obs.steps + 1 =>
             /\ OtherBuffer(ps') = getCurrentBuffer(ps)
             /\ BufferState(gl', OtherBuffer(ps')) = BufferState(gl, getCurrentBuffer(ps))
             /\ BufferState(gl', getCurrentBuffer(ps')) =
                   StepFrom(BufferState(gl, getCurrentBuffer(ps)),
                            updateUniforms(ps', ZeroVec))
             /\ \E dt \in DeltaTimes :
                   ps'.uniforms = [ps.uniforms EXCEPT !.uDeltaTime = dt]]_vars

\* after three updates the two buffers hold different states, one step apart
UpdateKeepsReadBufferWitness ==
    /\ HasBuffers
    /\ obs.steps = 3
    /\ BufferState(gl, getCurrentBuffer(ps)) # BufferState(gl, OtherBuffer(ps))
    /\ BufferState(gl, getCurrentBuffer(ps)) =
          StepFrom(BufferState(gl, OtherBuffer(ps)), updateUniforms(ps, ZeroVec))

\* particle i of state s after forces, damping and integration, before the
\* boundary stage
FreeFlight(s, u, i) == Integrate(s.pos[i], s.vel[i], s.ids[i], u)

\* C25: in every update, a position component that the integration carried
\* out of [-halfBounds, halfBounds] is set to the bound it crossed and its
\* velocity component becomes -v * bounce, which does not point out of the
\* box; a component that stayed inside keeps the integrated position and
\* velocity.
CollisionReflects ==
    [][obs'.steps = obs.steps + 1 =>
          \A i \in 1..ps.particleCount : \A a \in Axes :
             LET u == updateUniforms(ps', ZeroVec)
                 half == halfBounds(u)[a]
                 free == FreeFlight(BufferState(gl, getCurrentBuffer(ps)), u, i)
                 p == BufferState(gl', getCurrentBuffer(ps')).pos[i][a]
                 v == BufferState(gl', getCurrentBuffer(ps')).vel[i][a]
             IN  IF free.pos[a] < -half
                 THEN p = -half /\ v = Mul(-free.vel[a], u.uBounce) /\ v >= 0
                 ELSE IF free.pos[a] > half
                 THEN p = half /\ v = Mul(-free.vel[a], u.uBounce) /\ v <= 0
                 ELSE p = free.pos[a] /\ v = free.vel[a]]_vars

\* a particle was stopped at the +x wall with its x velocity reversed while
\* its y and z components moved freely
CollisionReflectsWitness ==
    /\ HasBuffers
    /\ obs.steps > 0
    /\ \E i \in 1..ps.particleCount :
          LET free == FreeFlight(BufferState(gl, OtherBuffer(ps)), updateUniforms(ps, ZeroVec), i)
          IN  /\ free.pos[1] > halfBounds(ps.uniforms)[1]
              /\ free.vel[1] > 0
              /\ CurrentPositions[i][1] = halfBounds(ps.uniforms)[1]
              /\ CurrentVelocities[i][1] = -Mul(free.vel[1], ps.uniforms.uBounce)
              /\ CurrentPositions[i][2] = free.pos[2]
              /\ CurrentVelocities[i][2] = free.vel[2]

----------------------------------------------------------------------------
(* Properties of the fluid renderer (SpecFluid) *)

TargetKinds == {"framebuffer", "texture", "renderbuffer"}

\* the live render-target objects that renderer `gen` allocated
LiveTargetObjects(gen) == {r \in gl.live : r.kind \in TargetKinds /\ r.owner = gen}

\* C8: after construction and after any sequence of resize() calls the renderer
\* holds four distinct render targets, all live and of the renderer's current
\* width and height; the live render-target objects it ever allocated are
\* exactly those of the four (everything older is deleted); and no pass of a
\* render() call bound or sampled a deleted target.
RenderTargetsCurrent ==
    fr # NULL =>
        /\ Cardinality(Targets(fr)) = 4
        /\ \A t \in Targets(fr) :
              /\ TargetResources(t) \subseteq gl.live
              /\ gl.images[t.texture].width = fr.width
              /\ gl.images[t.texture].height = fr.height
        /\ LiveTargetObjects(fr.gen) = UNION {TargetResources(t) : t \in Targets(fr)}
        /\ \A i \in 1..Len(obs.lastRender) : obs.lastRender[i].deleted = {}

\* two resizes changed the size, the old targets are gone, and a render() call
\* ran on the targets of the last allocation
RenderTargetsWitness ==
    /\ fr # NULL
    /\ obs.resizes >= 2
    /\ <<fr.width, fr.height>> # InitialSize
    /\ gl.deleted # {}
    /\ fr.depthFBO.fbo.alloc = 3
    /\ Len(obs.lastRender) = 5
    /\ obs.lastRender[1].target = {fr.depthFBO.texture}

----------------------------------------------------------------------------
(* Properties of the application (Spec) *)

PassNames == <<"depth", "horizontal", "vertical", "normal", "shading">>

\* C5: every render() call runs the five passes depth, horizontal bilateral,
\* vertical bilateral, normal reconstruction, shading in this order, once each,
\* and every pass samples only targets that an earlier pass of the same call
\* rendered into and wrote.
RenderPassOrder ==
    obs.renders > 0 =>
        /\ [i \in 1..Len(obs.lastRender) |-> obs.lastRender[i].name] = PassNames
        /\ \A i \in 1..Len(obs.lastRender) :
              /\ obs.lastRender[i].samples \subseteq
                    UNION {obs.lastRender[j].target : j \in 1..(i - 1)}
              /\ obs.lastRender[i].stale = {}

\* C6: at most one animation loop is active: never more than one
\* requestAnimationFrame callback is registered or waiting to run, and a
\* display refresh performs at most one update and one render.
SingleAnimationLoop ==
    /\ sched.raf + sched.toRun <= 1
    /\ obs.frameUpdates <= 1
    /\ obs.frameRenders <= 1

\* C7: when dispose() returns no GPU object allocated since start is live:
\* buffers, vertex arrays, transform feedback objects, the shape-target
\* texture, the render targets and every program are deleted.
DisposeReleasesEverything == [][Dispose => gl'.live = {}]_vars

\* C9: a start() that throws shows the error overlay, and animate() runs
\* update / render only on a pipeline that one start() built completely.
FailedStartIsContained ==
    [][ /\ (app'.starts # app.starts /\ sched'.awaiting = sched.awaiting)
             => app'.overlay = "error"
        /\ (sched'.raf = sched.raf + 1) => PipelineBuilt(ps', fr', app') ]_vars

\* C10: a render target whose framebuffer status is not complete aborts the
\* initialisation: the renderer never holds an incomplete target.
IncompleteFramebufferAborts ==
    fr # NULL => \A t \in Targets(fr) : gl.images[t.texture].complete

\* the last update() of the current particle system drew, and the buffers it
\* read and wrote still exist
LastUpdateDrew ==
    /\ HasBuffers
    /\ obs.lastUpdate.count > 0
    /\ \A b \in {ps.bufferA, ps.bufferB} :
          {b.posBuffer, b.velBuffer, b.idBuffer} \subseteq DOMAIN gl.buffers

\* C26: in a step no divisor is zero and normalize() is never applied to a
\* vector of length zero; the gravity term is skipped when |gravity| <= 0.001,
\* the attraction term when attraction <= 0 or the target is within 0.001, and
\* a touch term when its strength is 0 or the touch is within 0.001.
StepOperandsNonZero ==
    LastUpdateDrew =>
        \A i \in 1..ps.particleCount :
           LET s == BufferState(gl, OtherBuffer(ps))
               u == updateUniforms(ps, ZeroVec)
           IN  /\ \A d \in Divisors(s.pos[i], s.ids[i], u) : d # 0
               /\ \A v \in Normalized(s.pos[i], s.ids[i], u) : Length(v) > 0
               /\ Length(u.uGravity) <= Epsilon => ApplyGravity(s.vel[i], u) = s.vel[i]
               /\ u.uShapeAttraction <= 0 =>
                     ApplyAttraction(s.pos[i], s.vel[i], s.ids[i], u) = s.vel[i]
               /\ \A k \in 1..MaxTouchPoints :
                     u.uTouchPoints[k][4] = 0 =>
                        TouchForce(s.pos[i], u.uTouchPoints[k], u.uDeltaTime) = ZeroVec

----------------------------------------------------------------------------
(* Properties of the shape cycle (SpecCycle) *)

\* the shape after shapeName in this.shapes
NextShape(shapeName) ==
    ShapeNames[((CHOOSE k \in 1..Len(ShapeNames) : ShapeNames[k] = shapeName) % Len(ShapeNames)) + 1]

\* C29: whenever the application has a ShapeManager, its currentShape is
\* shapes[currentShapeIndex] and the target texture uploaded to the particle
\* system holds that shape's targets; and every shape-switch click moves
\* currentShape to its successor in sphere -> cube -> torus -> heart -> sphere,
\* so that four consecutive switches return to the same shape
ShapeFollowsIndex ==
    /\ [](app.shapeManager # NULL =>
            /\ app.shapeManager.currentShape = ShapeNames[app.currentShapeIndex + 1]
            /\ (ps # NULL /\ ps.uniforms.uTargetTexture # NoData) =>
                  ps.uniforms.uTargetTexture = createTargetTexture(app.shapeManager).data)
    /\ [][(CycleSwitch /\ app.shapeManager # NULL) =>
            app'.shapeManager.currentShape = NextShape(app.shapeManager.currentShape)]_vars

----------------------------------------------------------------------------
(* Properties of the shape button (SpecSwitch) *)

\* the particle buffers, vertex arrays and transform feedback objects of g,
\* and the current-buffer selector of p
ParticleState(g, p) ==
    <<g.buffers, g.vaos, g.tfs, p.bufferA, p.bufferB, p.transformFeedbackA,
      p.transformFeedbackB, p.currentBuffer>>

\* the targets of particle id in the RGBA texture data
TexelOf(data, id) == <<data[id * 4 + 1], data[id * 4 + 2], data[id * 4 + 3]>>

----------------------------------------------------------------------------
(* Properties of the teardown (SpecDispose) *)

\* what the GPU operations of the pipeline change or count: the contents of
\* the particle buffers, the render targets and their allocations, the
\* uploaded target texture, the simulation steps and the render() calls
GpuWork(g, p, o) ==
    <<g.buffers, g.images, g.allocs, g.live, g.deleted, p.uniforms.uTargetTexture,
      o.steps, o.renders>>

\* C22: once dispose() has been called, no display refresh, resize event or
\* shape-switch click performs a simulation step, a render pass, a
\* framebuffer reallocation or a texture upload
NoWorkAfterDispose ==
    [][obs.disposed => GpuWork(gl', ps', obs') = GpuWork(gl, ps, obs)]_vars

----------------------------------------------------------------------------
(* Properties of the display surface (SpecShade) *)

\* C21: after every frame, a pixel of the display surface still holds the
\* clear colour exactly where the normal field has alpha 0 (background): the
\* shading pass discards there, and writes every other pixel
BackgroundDiscarded ==
    [][obs'.renders = obs.renders + 1 =>
          \A k \in DOMAIN obs'.canvas :
              (obs'.canvas[k] = ClearPixel) <=>
                  (gl'.images[fr'.normalFBO.texture].pixels[k] = 0)]_vars

----------------------------------------------------------------------------
(* Properties of one simulation step (SpecStep) *)

SpeedSquared(v) == v[1] * v[1] + v[2] * v[2] + v[3] * v[3]

\* no force acts: gravity 0, every touch strength 0, attraction 0, damping < 1
Unforced ==
    /\ Length(ps.uniforms.uGravity) = 0
    /\ \A k \in 1..MaxTouchPoints : ps.uniforms.uTouchPoints[k][4] = 0
    /\ ps.uniforms.uShapeAttraction = 0
    /\ ps.uniforms.uDamping < Unit

\* C12: with no force acting, no step raises the speed of any particle, a
\* step in which the particle hits a boundary included
MomentumDecay ==
    [][Unforced =>
          \A i \in 1..ps.particleCount :
              SpeedSquared(CurrentVelocities'[i]) <= SpeedSquared(CurrentVelocities[i])]_vars

\* a moving particle of an unforced system has just bounced off the +x wall
MomentumDecayWitness ==
    /\ Unforced
    /\ obs.steps > 0
    /\ \E i \in 1..ps.particleCount :
          /\ CurrentPositions[i][1] = halfBounds(ps.uniforms)[1]
          /\ CurrentVelocities[i][1] < 0

\* particle i at rest at y = -0.95 in a system with bounds (1, 1, 1), bounce
\* 0.5 and gravity (0, -9.81, 0), about to be stepped
FloorScenario(i) ==
    /\ ps.uniforms.uBounds = Vec3(Unit, Unit, Unit)
    /\ ps.uniforms.uBounce = 5000
    /\ ps.uniforms.uGravity = Vec3(0, -GravityAccel, 0)
    /\ CurrentPositions[i] = Vec3(0, -9500, 0)
    /\ CurrentVelocities[i] = ZeroVec

\* C13 (as stated): a step of dt = 0.1 from that state stores y = -1.0 and
\* v_y = +0.4905
FloorBounceStep ==
    [][\A i \in 1..ps.particleCount :
          FloorScenario(i) /\ ps'.uniforms.uDeltaTime = 1000 =>
              /\ CurrentPositions'[i][2] = -Unit
              /\ CurrentVelocities'[i][2] = 4905]_vars

\* C13 (amended): a step of dt = 0.1 from that state stores y = -0.5, the wall
\* at half the bounds, and v_y = 0.981 * damping * 0.5 (+0.4905 with damping 1.0)
FloorBounceAtHalfBounds ==
    [][\A i \in 1..ps.particleCount :
          FloorScenario(i) /\ ps'.uniforms.uDeltaTime = 1000 =>
              /\ CurrentPositions'[i][2] = -5000
              /\ CurrentVelocities'[i][2] = Mul(Mul(9810, ps.uniforms.uDamping), 5000)]_vars

\* the scenario's particle, stepped once by 0.1 s with damping 1.0, rests on
\* the wall y = -0.5 and moves up at 0.4905
FloorBounceWitness ==
    /\ obs.steps = 1
    /\ ps.uniforms.uDeltaTime = 1000
    /\ ps.uniforms.uBounds = Vec3(Unit, Unit, Unit)
    /\ ps.uniforms.uBounce = 5000
    /\ ps.uniforms.uDamping = Unit
    /\ ps.uniforms.uGravity = Vec3(0, -GravityAccel, 0)
    /\ \E i \in 1..ps.particleCount :
          /\ CurrentPositions[i] = Vec3(0, -5000, 0)
          /\ CurrentVelocities[i] = Vec3(0, 4905, 0)

----------------------------------------------------------------------------
(* Properties of the shape target texture (SpecShape) *)

\* the i-th point (i from 0) of the shape manager's current sample
SampledPoint(i) ==
    LET tp == app.shapeManager.targetPositions
    IN  Vec3(tp[3 * i + 1], tp[3 * i + 2], tp[3 * i + 3])

\* C14: for every particle count, shape and id i, the texel the simulator
\* fetches for id i holds the coordinates of the i-th sampled point
ShapeRoundTrip ==
    \A i \in 0..(ps.particleCount - 1) :
        getTargetPosition(i, ps.uniforms) = SampledPoint(i)

\* a randomly sampled shape for three particles: id 2 lies in the second row
ShapeRoundTripWitness ==
    /\ obs.switches > 0
    /\ ps.particleCount = 3
    /\ app.shapeManager.currentShape = "heart"
    /\ getTargetPosition(2, ps.uniforms) = HeartPoints[2]

\* C15: the target texture is a square RGBA array of side ceil(sqrt(N)) >= 1
\* whose cells from index N on are zero in all four channels
TargetTexturePadding ==
    LET size == ps.uniforms.uTextureSize
        data == ps.uniforms.uTargetTexture
        n == ps.particleCount
    IN  /\ Len(data) = size * size * 4
        /\ size * size >= n
        /\ (size - 1) * (size - 1) < n
        /\ \A i \in n..(size * size - 1) : \A c \in 1..4 : data[4 * i + c] = 0

\* three particles in a 2 x 2 texture after a switch: cell 3 is padding
TargetTexturePaddingWitness ==
    /\ obs.switches > 1
    /\ ps.particleCount = 3
    /\ ps.uniforms.uTextureSize = 2
    /\ app.shapeManager.currentShape = "torus"

\* C30: updateShape with a name that is none of sphere, cube, torus, heart
\* (names of inherited properties included) changes nothing: currentShape is
\* kept and targetPositions stays the Float32Array of 3 * N values it was.
UnknownShapeRejected ==
    [][ShapeUpdateNamed =>
          /\ app'.shapeManager = app.shapeManager
          /\ app'.shapeManager.targetType = "Float32Array"
          /\ Len(app'.shapeManager.targetPositions) = 3 * app'.shapeManager.particleCount]_vars

----------------------------------------------------------------------------
(* Properties of the shape morph (SpecMorph) *)

\* C11 (as stated): t seconds of simulated time after the target shape was
\* last set, the attraction handed to the simulator is min(1.0, 0.5 * t)
MorphAttractionRamp ==
    ps.uniforms.uShapeAttraction = Min(Unit, Mul(obs.morphTime, RampSpeed))

\* C11 (amended): a shape switch resets the attraction to 0, and t seconds of
\* simulated time later it is min(shapeAttractionTarget, 0.5 * t), the target
\* being 0.8
MorphAttractionRampToTarget ==
    /\ app.shapeAttractionTarget = ShapeAttractionTarget
    /\ ps.uniforms.uShapeAttraction =
          Min(app.shapeAttractionTarget, Mul(obs.morphTime, RampSpeed))

\* after a shape switch the ramp has reached the target and stays there
MorphAttractionRampWitness ==
    /\ obs.switches = 1
    /\ ps.uniforms.uShapeAttraction = ShapeAttractionTarget
    /\ Mul(obs.morphTime, RampSpeed) > ShapeAttractionTarget

\* C18: in every frame the step runs before the render passes, and the
\* depth pass draws from the buffers that step has just written (the current
\* buffer after the swap), never from those it read
StepFeedsDepthPass ==
    obs.renders > 0 =>
        /\ obs.steps = obs.renders
        /\ obs.lastUpdate.written # {}
        /\ obs.lastUpdate.written = StateSet(getCurrentBuffer(ps))
        /\ obs.lastUpdate.written \subseteq obs.lastRender[1].sources
        /\ obs.lastUpdate.read \cap obs.lastRender[1].sources = {}

\* the third frame after start(): the step wrote buffer B and the depth pass
\* drew from vertex array B
StepFeedsDepthPassWitness ==
    /\ sched.frames = 2
    /\ obs.renders = 3
    /\ ps.currentBuffer = 1
    /\ ps.bufferB.vao \in obs.lastRender[1].sources

\* C27: in every render() call, the first as well as the later ones, blending
\* is enabled during the shading pass and during no other pass, depth testing
\* is enabled during the depth pass and during no other pass, and
\* RASTERIZER_DISCARD is disabled during every pass
PassStateScoped ==
    \A k \in DOMAIN obs.lastRender :
        /\ obs.lastRender[k].BLEND = (obs.lastRender[k].name = "shading")
        /\ obs.lastRender[k].DEPTH_TEST = (obs.lastRender[k].name = "depth")
        /\ ~obs.lastRender[k].RASTERIZER_DISCARD

----------------------------------------------------------------------------
(* Properties of the intermediate fields (SpecFluid) *)

\* the names of the passes of the last render() call that render into / sample
\* the texture of the render target `slot` (the textures are the ones the
\* renderer held during that call)
WritersOf(slot) ==
    {obs.lastRender[k].name : k \in {j \in DOMAIN obs.lastRender :
                                         \E t \in obs.lastRender[j].target : t.slot = slot}}
ReadersOf(slot) ==
    {obs.lastRender[k].name : k \in {j \in DOMAIN obs.lastRender :
                                         \E t \in obs.lastRender[j].samples : t.slot = slot}}

\* every field has one writer, the first three fields have the stated single
\* reader, and no pass samples the target it renders into
FieldOwnership ==
    /\ WritersOf("depthFBO") = {"depth"} /\ ReadersOf("depthFBO") = {"horizontal"}
    /\ WritersOf("blurFBO1") = {"horizontal"} /\ ReadersOf("blurFBO1") = {"vertical"}
    /\ WritersOf("blurFBO2") = {"vertical"}
    /\ WritersOf("normalFBO") = {"normal"} /\ ReadersOf("normalFBO") = {"shading"}
    /\ \A k \in DOMAIN obs.lastRender :
          obs.lastRender[k].target \cap obs.lastRender[k].samples = {}

\* C19 (as stated): each intermediate field is written by one stage and read
\* by the next stage and no other; the second filter target is read by the
\* normal reconstruction only
FieldsReadByNextStageOnly ==
    obs.renders > 0 => FieldOwnership /\ ReadersOf("blurFBO2") = {"normal"}

\* C19 (amended): as stated, except that the second filter target is read by
\* the normal reconstruction and by the shading pass
FieldsReadDownstream ==
    obs.renders > 0 => FieldOwnership /\ ReadersOf("blurFBO2") = {"normal", "shading"}

\* a render() call whose shading pass sampled the normal field and the
\* filtered depth
FieldsReadDownstreamWitness ==
    /\ obs.renders > 0
    /\ Len(obs.lastRender) = 5
    /\ obs.lastRender[5].name = "shading"
    /\ {t.slot : t \in obs.lastRender[5].samples} = {"normalFBO", "blurFBO2"}

----------------------------------------------------------------------------
(* Properties of the depth field (SpecFluid) *)

DepthField == gl.images[fr.depthFBO.texture].pixels

\* C16: after a render() call with particleCount = 0 every pixel of the depth
\* field holds the background sentinel 0, whatever it held before
EmptyDepthField ==
    obs.renders > 0 /\ obs.lastCount = 0 =>
        \A k \in DOMAIN DepthField : DepthField[k] = 0

\* a call with no particles follows a call that drew particles into the same
\* depth target (its depth buffer still holds their distances)
EmptyDepthFieldWitness ==
    /\ obs.renders = 2
    /\ obs.lastCount = 0
    /\ \E k \in DOMAIN DepthField :
          gl.images[fr.depthFBO.texture].zbuf[k] \notin {CameraNear, CameraFar}
    /\ \A k \in DOMAIN DepthField : DepthField[k] = 0

\* one filter pass as stated: background centre pixels yield 0; for the others
\* the samples combined are the non-background ones of the kernel, and the
\* output is their weight-normalised combination with the centre
FilterPassAsStated(source, target, direction) ==
    \A k \in DOMAIN source.pixels :
       LET x == (k - 1) % source.width
           y == (k - 1) \div source.width
       IN  IF source.pixels[k] = 0 THEN target.pixels[k] = 0
           ELSE /\ Contributors(source, x, y, direction, gl.blurShader) =
                     { o \in (-TapsOf(gl.blurShader)..TapsOf(gl.blurShader)) \ {0} :
                         Texel(source, x + o * direction[1], y + o * direction[2]) # 0 }
                /\ target.pixels[k] =
                     bilateral_filter(source, x, y, direction, gl.blurShader)

\* C20: in both bilateral passes a background centre pixel (depth 0) yields 0,
\* and a non-background centre yields the weight-normalised combination of
\* itself and exactly the kernel neighbours whose depth is not 0, whatever
\* the sign of their depth
BilateralNeighbours ==
    /\ FilterPassAsStated(gl.images[fr.depthFBO.texture],
                          gl.images[fr.blurFBO1.texture], <<1, 0>>)
    /\ FilterPassAsStated(gl.images[fr.blurFBO1.texture],
                          gl.images[fr.blurFBO2.texture], <<0, 1>>)

----------------------------------------------------------------------------
(* Properties of the touch points (SpecTouch) *)

\* the velocity the claim has slot tp add to a particle at `position` in a step
\* of dt: strength * C / (dist^2 + eps) toward the slot's (x, y) position
StatedTouchForce(position, tp, dt) ==
    LET toTouch == VSub(Vec3(tp.x, tp.y, 0), position)
        dist == Length(toTouch)
    IN  IF tp.z > 0 /\ dist > Epsilon
        THEN VScale(VScale(Normalize(toTouch),
                           Quot(Mul(tp.z, TouchGain), Mul(dist, dist) + TouchSoftening)),
                    dt)
        ELSE ZeroVec

\* C24: the velocity a touch slot adds to a particle in a step is
\* strength * C / (dist^2 + eps) along the direction to the slot's (x, y)
\* position, with the slot's strength field (not its active flag) as the
\* multiplier.
TouchForceUsesStrength ==
    \A i \in 1..MaxTouchPoints : \A k \in DOMAIN InitSamples :
        TouchForce(InitSamples[k].pos, getUniformData(app.touchPoints)[i], DtCap)
            = StatedTouchForce(InitSamples[k].pos, app.touchPoints[i], DtCap)

\* no finger rests on slot i and the mouse does not hold slot 1
Released(i) == i > obs.fingers /\ (i = 1 => ~obs.mouseDown)

\* the force slot i of the uniform data exerts on the explored particles
Inert(tps, i) ==
    \A k \in 1..Len(InitSamples), dt \in DeltaTimes :
        TouchForce(InitSamples[k].pos, getUniformData(tps)[i], dt) = ZeroVec

\* C17: in every frame the strength of a released slot shrinks until it is
\* 0, and a released slot of strength 0 exerts no force
ReleasedTouchDecays ==
    [][TouchFrame =>
          \A i \in 1..MaxTouchPoints :
              Released(i) =>
                  /\ app.touchPoints[i].z > 0 => app'.touchPoints[i].z < app.touchPoints[i].z
                  /\ app'.touchPoints[i].z = 0 => Inert(app'.touchPoints, i)]_vars

====
